---------------------------- MODULE Spec2Model ----------------------------
(***************************************************************************)
(* ganttinator: task table -> assignee groups and colours -> configuration *)
(* document -> PlantUML Gantt text.                                        *)
(*                                                                         *)
(* Text whose characters the code inspects (assignee lists, names, dates,  *)
(* legend references) is a sequence of one-character strings; text that is *)
(* only copied or tested for emptiness (colours, urls) is a TLA+ string,   *)
(* "" being the empty text.                                                *)
(***************************************************************************)
EXTENDS Integers, Sequences, FiniteSets, TLC

VARIABLES
    pc,                  \* position of the run
    tasks,               \* list[Task]
    min_occurrences,     \* --min-group-occurrences
    assignees,           \* the set handed to assign_colors
    groups,              \* detect_assignee_groups' result: list of tuples
    persons_with_colors, \* assign_colors' first result
    groups_with_colors,  \* assign_colors' second result
    config,              \* the configuration document
    lines,               \* generate_plantuml's lines
    cli                  \* main()'s options, its input files, what it read and wrote

vars == <<pc, tasks, min_occurrences, assignees, groups, persons_with_colors,
          groups_with_colors, config, lines, cli>>

-----------------------------------------------------------------------------
(* Python values                                                           *)

\* the characters of the model in code-point order (str comparison is by code point)
Alphabet == << " ", "&", "(", ")", ",", "-",
              "0", "1", "2", "3", "4", "5", "6", "7", "8", "9", ":",
              "A", "B", "C", "D", "E", "F", "G", "H", "I", "J", "K", "L", "M",
              "N", "O", "P", "Q", "R", "S", "T", "U", "V", "W", "X", "Y", "Z",
              "[", "]",
              "a", "b", "c", "d", "e", "f", "g", "h", "i", "j", "k", "l", "m",
              "n", "o", "p", "q", "r", "s", "t", "u", "v", "w", "x", "y", "z" >>

UpperCase == << "A", "B", "C", "D", "E", "F", "G", "H", "I", "J", "K", "L", "M",
               "N", "O", "P", "Q", "R", "S", "T", "U", "V", "W", "X", "Y", "Z" >>

LowerCase == << "a", "b", "c", "d", "e", "f", "g", "h", "i", "j", "k", "l", "m",
               "n", "o", "p", "q", "r", "s", "t", "u", "v", "w", "x", "y", "z" >>

Ord(c) == CHOOSE i \in 1..Len(Alphabet) : Alphabet[i] = c

\* Python's None, as returned by get_task_color and find_earliest_task_date
None == "<None>"

\* s < t for str: lexicographic by code point, a proper prefix is smaller
RECURSIVE StrLess(_, _)
StrLess(s, t) ==
    IF t = <<>> THEN FALSE
    ELSE IF s = <<>> THEN TRUE
    ELSE IF s[1] = t[1] THEN StrLess(Tail(s), Tail(t))
    ELSE Ord(s[1]) < Ord(t[1])

\* min(list of str): the first smallest element
RECURSIVE StrMin(_)
StrMin(l) ==
    IF Len(l) = 1 THEN l[1]
    ELSE LET m == StrMin(Tail(l)) IN IF StrLess(m, l[1]) THEN m ELSE l[1]

\* list.insert into a list sorted by key, after the elements that do not compare
\* greater (sorted() is stable)
RECURSIVE InsertSorted(_, _)
InsertSorted(x, l) ==
    IF l = <<>> THEN <<x>>
    ELSE IF StrLess(x, l[1]) THEN <<x>> \o l
    ELSE <<l[1]>> \o InsertSorted(x, Tail(l))

\* sorted(list of str)
RECURSIVE Sorted(_)
Sorted(l) ==
    IF l = <<>> THEN <<>>
    ELSE InsertSorted(l[Len(l)], Sorted(SubSeq(l, 1, Len(l) - 1)))

\* sorted(set of str)
RECURSIVE SortedSet(_)
SortedSet(S) ==
    IF S = {} THEN <<>>
    ELSE LET m == CHOOSE x \in S : \A y \in S \ {x} : StrLess(x, y)
         IN <<m>> \o SortedSet(S \ {m})

\* str.strip() for the one whitespace character of the model
RECURSIVE LStrip(_)
LStrip(s) == IF s # <<>> /\ s[1] = " " THEN LStrip(Tail(s)) ELSE s

RECURSIVE RStrip(_)
RStrip(s) ==
    IF s # <<>> /\ s[Len(s)] = " " THEN RStrip(SubSeq(s, 1, Len(s) - 1)) ELSE s

Strip(s) == RStrip(LStrip(s))

\* str.split(","): cur is the piece being read, out the pieces before it
RECURSIVE SplitFrom(_, _, _, _)
SplitFrom(s, i, cur, out) ==
    IF i > Len(s) THEN Append(out, cur)
    ELSE IF s[i] = "," THEN SplitFrom(s, i + 1, <<>>, Append(out, cur))
    ELSE SplitFrom(s, i + 1, Append(cur, s[i]), out)

Split(s) == SplitFrom(s, 1, <<>>, <<>>)

\* sep.join(list of str)
RECURSIVE Join(_, _)
Join(sep, l) ==
    IF l = <<>> THEN <<>>
    ELSE IF Len(l) = 1 THEN l[1]
    ELSE l[1] \o sep \o Join(sep, Tail(l))

\* str.startswith(prefix)
StartsWith(s, prefix) ==
    Len(s) >= Len(prefix) /\ SubSeq(s, 1, Len(prefix)) = prefix

\* s[n:]
DropFirst(s, n) == IF n >= Len(s) THEN <<>> ELSE SubSeq(s, n + 1, Len(s))

\* a dict is the list of its <<key, value>> items in insertion order
DictHas(d, k) == \E i \in 1..Len(d) : d[i][1] = k

DictGet(d, k, default) ==
    IF DictHas(d, k) THEN d[CHOOSE i \in 1..Len(d) : d[i][1] = k][2] ELSE default

\* d[k] = v: a key already present keeps its place
DictSet(d, k, v) ==
    IF DictHas(d, k)
    THEN [i \in 1..Len(d) |-> IF d[i][1] = k THEN <<k, v>> ELSE d[i]]
    ELSE Append(d, <<k, v>>)

Range(l) == {l[i] : i \in 1..Len(l)}

\* the concatenation of a list of lists
RECURSIVE Flat(_)
Flat(ll) == IF ll = <<>> THEN <<>> ELSE ll[1] \o Flat(Tail(ll))

\* str.lower()
Lower(s) ==
    [i \in 1..Len(s) |->
        IF \E k \in 1..Len(UpperCase) : UpperCase[k] = s[i]
        THEN LowerCase[CHOOSE k \in 1..Len(UpperCase) : UpperCase[k] = s[i]]
        ELSE s[i]]

-----------------------------------------------------------------------------
(* task.py                                                                 *)

Task(title, url, assignee_text, start_date, end_date, milestone) ==
    [title |-> title, url |-> url, assignees |-> assignee_text,
     start_date |-> start_date, end_date |-> end_date, milestone |-> milestone]

get_assignee_list(task) ==
    IF task.assignees = <<>> THEN <<>>
    ELSE LET parts == Split(task.assignees)
             stripped == [i \in 1..Len(parts) |-> Strip(parts[i])]
         IN SelectSeq(stripped, LAMBDA a : a # <<>>)

get_assignee_tuple(task) == Sorted(get_assignee_list(task))

-----------------------------------------------------------------------------
(* config.py                                                               *)

Saturday == <<"s", "a", "t", "u", "r", "d", "a", "y">>
Sunday == <<"s", "u", "n", "d", "a", "y">>

GroupPrefix == <<"g", "r", "o", "u", "p", ":">>
PersonPrefix == <<"p", "e", "r", "s", "o", "n", ":">>

\* legend_items with the individuals before the groups
legend_items_persons_first(persons, grps) ==
    [i \in 1..Len(persons) |-> <<PersonPrefix \o persons[i].name, persons[i].color>>]
    \o [i \in 1..Len(grps) |-> <<GroupPrefix \o grps[i].uuid, grps[i].color>>]

\* the legend items: groups first by uuid, then individuals
legend_items(persons, grps) ==
    [i \in 1..Len(grps) |-> <<GroupPrefix \o grps[i].uuid, grps[i].color>>]
    \o [i \in 1..Len(persons) |-> <<PersonPrefix \o persons[i].name, persons[i].color>>]

to_dict(task) ==
    [title |-> task.title, url |-> task.url, assignees |-> task.assignees,
     start_date |-> task.start_date, end_date |-> task.end_date,
     milestone |-> task.milestone]

create_toml_config(tsks, project_start_date, milestone_dates, persons, grps, header, footer, legend_title) ==
    [project |-> [start_date |-> project_start_date, header |-> header,
                  footer |-> footer],
     closed_days |-> [weekdays |-> <<Saturday, Sunday>>, dates |-> <<>>,
                      date_ranges |-> <<>>],
     milestones |-> milestone_dates,
     colors |-> [persons |-> [isdict |-> FALSE, value |-> persons]],
     groups |-> grps,
     legend |-> [enabled |-> TRUE, title |-> legend_title,
                 items |-> legend_items(persons, grps)],
     tasks |-> [i \in 1..Len(tsks) |-> to_dict(tsks[i])]]

\* isinstance(entry, dict): an entry of a list that is no table is the record
\* of its one value, scalar
IsDict(entry) == "scalar" \notin DOMAIN entry

\* the loop over the list-of-records shape of colors.persons; a key the record
\* lacks reads as the empty text
RECURSIVE load_person_records(_, _, _)
load_person_records(l, colors, names) ==
    IF l = <<>> THEN [person_colors |-> colors, person_display_names |-> names]
    ELSE LET p == l[1]
             name == IF "name" \in DOMAIN p THEN p.name ELSE <<>>
             color == IF "color" \in DOMAIN p THEN p.color ELSE ""
             display_name == IF "display_name" \in DOMAIN p THEN p.display_name ELSE <<>>
         IN
         IF IsDict(p) /\ name # <<>>
         THEN load_person_records(Tail(l),
                  IF color # "" THEN DictSet(colors, name, color) ELSE colors,
                  IF display_name # <<>> THEN DictSet(names, name, display_name)
                                         ELSE names)
         ELSE load_person_records(Tail(l), colors, names)

\* load_persons_from_config without the flat mapping
load_persons_list_only(cfg) ==
    IF cfg.colors.persons.isdict
    THEN [person_colors |-> <<>>, person_display_names |-> <<>>]
    ELSE load_person_records(cfg.colors.persons.value, <<>>, <<>>)

load_persons_from_config(cfg) ==
    IF cfg.colors.persons.isdict
    THEN [person_colors |-> cfg.colors.persons.value, person_display_names |-> <<>>]
    ELSE load_person_records(cfg.colors.persons.value, <<>>, <<>>)

\* the loop over the group records that keeps the groups without members
RECURSIVE load_group_records_named(_, _, _, _)
load_group_records_named(l, gdict, colors, uuids) ==
    IF l = <<>>
    THEN [groups_dict |-> gdict, group_colors |-> colors, uuid_to_name |-> uuids]
    ELSE LET g == l[1]
             name == IF "name" \in DOMAIN g THEN g.name ELSE <<>>
         IN
         IF IsDict(g) /\ name # <<>>
         THEN load_group_records_named(Tail(l),
                  DictSet(gdict, name, IF "members" \in DOMAIN g THEN g.members ELSE <<>>),
                  colors, uuids)
         ELSE load_group_records_named(Tail(l), gdict, colors, uuids)

\* the loop over the group records
RECURSIVE load_group_records(_, _, _, _)
load_group_records(l, gdict, colors, uuids) ==
    IF l = <<>>
    THEN [groups_dict |-> gdict, group_colors |-> colors, uuid_to_name |-> uuids]
    ELSE LET g == l[1]
             group_uuid == IF "uuid" \in DOMAIN g THEN g.uuid ELSE <<>>
             name == IF "name" \in DOMAIN g THEN g.name ELSE <<>>
             members == IF "members" \in DOMAIN g THEN g.members ELSE <<>>
             color == IF "color" \in DOMAIN g THEN g.color ELSE ""
         IN
         IF IsDict(g) /\ name # <<>> /\ members # <<>>
         THEN load_group_records(Tail(l),
                  DictSet(gdict, name, members),
                  IF color # "" THEN DictSet(colors, name, color) ELSE colors,
                  IF group_uuid # <<>> THEN DictSet(uuids, group_uuid, name) ELSE uuids)
         ELSE load_group_records(Tail(l), gdict, colors, uuids)

load_groups_from_config(cfg) == load_group_records(cfg.groups, <<>>, <<>>, <<>>)

load_closed_days_from_config(cfg) ==
    [closed_weekdays |-> IF "weekdays" \in DOMAIN cfg.closed_days
                         THEN cfg.closed_days.weekdays
                         ELSE <<Saturday, Sunday>>,
     closed_dates |-> cfg.closed_days.dates,
     closed_date_ranges |-> SelectSeq(cfg.closed_days.date_ranges,
                                      LAMBDA r : Len(r) = 2)]

\* tomli_w.dump: the file is a list of chunks, one for each table under its
\* header and one for each element of an array of tables under the array's
\* header; colors has no key of its own and is written only through its persons
save_config_to_toml(cfg) ==
    LET Chunks(header, l) == [i \in 1..Len(l) |-> [header |-> header, body |-> l[i]]]
    IN << [header |-> "project", body |-> cfg.project],
          [header |-> "closed_days", body |-> cfg.closed_days],
          [header |-> "milestones", body |-> cfg.milestones] >>
       \o (IF cfg.colors.persons.isdict
           THEN <<[header |-> "colors.persons", body |-> cfg.colors.persons.value]>>
           ELSE Chunks("colors.persons[]", cfg.colors.persons.value))
       \o Chunks("groups[]", cfg.groups)
       \o <<[header |-> "legend", body |-> cfg.legend]>>
       \o Chunks("tasks[]", cfg.tasks)

\* tomli.load: the tables by their headers, the arrays of tables from their
\* elements in the order of the file, empty where the file has none
load_config_from_toml(text) ==
    LET Table(header) == text[CHOOSE i \in 1..Len(text) : text[i].header = header].body
        Array(header) ==
            LET chunks == SelectSeq(text, LAMBDA chunk : chunk.header = header)
            IN [i \in 1..Len(chunks) |-> chunks[i].body]
    IN [project |-> Table("project"),
        closed_days |-> Table("closed_days"),
        milestones |-> Table("milestones"),
        colors |-> [persons |->
                      IF \E i \in 1..Len(text) : text[i].header = "colors.persons"
                      THEN [isdict |-> TRUE, value |-> Table("colors.persons")]
                      ELSE [isdict |-> FALSE, value |-> Array("colors.persons[]")]],
        groups |-> Array("groups[]"),
        legend |-> Table("legend"),
        tasks |-> Array("tasks[]")]

-----------------------------------------------------------------------------
(* utils.py                                                                *)

\* the dates list of find_earliest_task_date
RECURSIVE task_dates(_)
task_dates(tsks) ==
    IF tsks = <<>> THEN <<>>
    ELSE (IF tsks[1].start_date # <<>> THEN <<tsks[1].start_date>> ELSE <<>>)
         \o (IF tsks[1].end_date # <<>> THEN <<tsks[1].end_date>> ELSE <<>>)
         \o task_dates(Tail(tsks))

\* None is the empty text here: the caller only tests the result's truth value
find_earliest_task_date(tsks) ==
    IF task_dates(tsks) # <<>> THEN StrMin(task_dates(tsks)) ELSE <<>>

\* str.split(sep) for a separator of one character
RECURSIVE SplitOnFrom(_, _, _, _, _)
SplitOnFrom(s, sep, i, cur, out) ==
    IF i > Len(s) THEN Append(out, cur)
    ELSE IF s[i] = sep THEN SplitOnFrom(s, sep, i + 1, <<>>, Append(out, cur))
    ELSE SplitOnFrom(s, sep, i + 1, Append(cur, s[i]), out)

SplitOn(s, sep) == SplitOnFrom(s, sep, 1, <<>>, <<>>)

DigitChars == <<"0", "1", "2", "3", "4", "5", "6", "7", "8", "9">>

IsDigit(c) == \E k \in 1..Len(DigitChars) : DigitChars[k] = c

AllDigits(s) == \A i \in 1..Len(s) : IsDigit(s[i])

DigitValue(c) == (CHOOSE k \in 1..Len(DigitChars) : DigitChars[k] = c) - 1

\* int(s) for a text of digits
RECURSIVE Number(_)
Number(s) ==
    IF s = <<>> THEN 0
    ELSE 10 * Number(SubSeq(s, 1, Len(s) - 1)) + DigitValue(s[Len(s)])

\* str(n) for n >= 0
RECURSIVE DigitsOf(_)
DigitsOf(n) ==
    IF n < 10 THEN <<DigitChars[n + 1]>>
    ELSE DigitsOf(n \div 10) \o <<DigitChars[(n % 10) + 1]>>

\* the month names of %b and %B in the C locale, in lower case
MonthAbbreviations ==
    << <<"j", "a", "n">>, <<"f", "e", "b">>, <<"m", "a", "r">>, <<"a", "p", "r">>,
       <<"m", "a", "y">>, <<"j", "u", "n">>, <<"j", "u", "l">>, <<"a", "u", "g">>,
       <<"s", "e", "p">>, <<"o", "c", "t">>, <<"n", "o", "v">>, <<"d", "e", "c">> >>

MonthNames ==
    << <<"j", "a", "n", "u", "a", "r", "y">>, <<"f", "e", "b", "r", "u", "a", "r", "y">>,
       <<"m", "a", "r", "c", "h">>, <<"a", "p", "r", "i", "l">>, <<"m", "a", "y">>,
       <<"j", "u", "n", "e">>, <<"j", "u", "l", "y">>, <<"a", "u", "g", "u", "s", "t">>,
       <<"s", "e", "p", "t", "e", "m", "b", "e", "r">>,
       <<"o", "c", "t", "o", "b", "e", "r">>, <<"n", "o", "v", "e", "m", "b", "e", "r">>,
       <<"d", "e", "c", "e", "m", "b", "e", "r">> >>

DaysInMonth(y, m) ==
    LET leap == (y % 4 = 0 /\ y % 100 # 0) \/ y % 400 = 0
    IN IF m = 2 THEN (IF leap THEN 29 ELSE 28)
       ELSE IF m \in {4, 6, 9, 11} THEN 30 ELSE 31

\* what %Y, %m and %d match: four digits; 1..12 in one or two digits; 1..31 in one
\* or two digits, or a blank and one digit
YearText(s) == Len(s) = 4 /\ AllDigits(s)

MonthText(s) == Len(s) \in {1, 2} /\ AllDigits(s) /\ Number(s) \in 1..12

DayText(s) ==
    \/ Len(s) \in {1, 2} /\ AllDigits(s) /\ Number(s) \in 1..31
    \/ Len(s) = 2 /\ s[1] = " " /\ IsDigit(s[2]) /\ s[2] # "0"

\* no date: what strptime's ValueError leaves
NoDate == [ok |-> FALSE, year |-> 0, month |-> 0, day |-> 0]

\* datetime(year, month, day), a ValueError if there is no such day
DateOf(year, month, day) ==
    IF year >= 1 /\ day <= DaysInMonth(year, month)
    THEN [ok |-> TRUE, year |-> year, month |-> month, day |-> day]
    ELSE NoDate

\* datetime.strptime(s, "%Y-%m-%d")
strptime_iso(s) ==
    LET parts == SplitOn(s, "-")
    IN IF Len(parts) = 3 /\ YearText(parts[1]) /\ MonthText(parts[2]) /\ DayText(parts[3])
       THEN DateOf(Number(parts[1]), Number(parts[2]),
                   IF parts[3][1] = " " THEN Number(Tail(parts[3])) ELSE Number(parts[3]))
       ELSE NoDate

\* the length of the longest prefix of s made of letters
RECURSIVE LettersPrefix(_)
LettersPrefix(s) ==
    IF s # <<>> /\ (\E k \in 1..Len(UpperCase) : s[1] \in {UpperCase[k], LowerCase[k]})
    THEN 1 + LettersPrefix(Tail(s))
    ELSE 0

\* datetime.strptime(s, "%b %d, %Y") and "%B %d, %Y": names are the month names,
\* matched in any case; a blank of the format matches one or more blanks
strptime_named(s, names) ==
    LET parts == SplitOn(s, ",")
        left == parts[1]
        right == parts[2]
        n == LettersPrefix(left)
        word == Lower(SubSeq(left, 1, n))
        after == SubSeq(left, n + 1, Len(left))
        day == LStrip(after)
        year == LStrip(right)
    IN IF /\ Len(parts) = 2
          /\ \E m \in 1..Len(names) : names[m] = word
          /\ after # <<>> /\ after[1] = " "
          /\ Len(day) \in {1, 2} /\ AllDigits(day) /\ Number(day) \in 1..31
          /\ right # <<>> /\ right[1] = " "
          /\ YearText(year)
       THEN DateOf(Number(year), CHOOSE m \in 1..Len(names) : names[m] = word,
                   Number(day))
       ELSE NoDate

\* dt.strftime("%Y-%m-%d"): %m and %d print two digits; what %Y prints for a year
\* below 1000 depends on the C library: four digits with leading zeros where
\* pads_year holds, the bare number where it does not
strftime(dt, pads_year) ==
    LET Pad(n, width) == [i \in 1..(width - Len(DigitsOf(n))) |-> "0"] \o DigitsOf(n)
    IN (IF pads_year THEN Pad(dt.year, 4) ELSE DigitsOf(dt.year))
       \o <<"-">> \o Pad(dt.month, 2) \o <<"-">> \o Pad(dt.day, 2)

\* parse_date; None is the empty text, which no date is
parse_date(date_str, pads_year) ==
    LET s == Strip(date_str)
    IN IF date_str = <<>> THEN <<>>
       ELSE IF strptime_iso(s).ok THEN strftime(strptime_iso(s), pads_year)
       ELSE IF strptime_named(s, MonthAbbreviations).ok
       THEN strftime(strptime_named(s, MonthAbbreviations), pads_year)
       ELSE IF strptime_named(s, MonthNames).ok
       THEN strftime(strptime_named(s, MonthNames), pads_year)
       ELSE <<>>

RequiredColumns == {"Title", "URL", "Assignees", "Start date", "End Date", "Milestone"}

\* row[column] of csv.DictReader: the cell under the column's header, None (here
\* the record without a value) where the line has fewer cells than the header
Cell(fieldnames, row, column) ==
    LET k == CHOOSE i \in 1..Len(fieldnames) : fieldnames[i] = column
    IN IF k <= Len(row) THEN [none |-> FALSE, value |-> row[k]]
       ELSE [none |-> TRUE, value |-> <<>>]

\* the loop over the rows; csv.DictReader skips the lines without any cell, and
\* None.strip() raises AttributeError
RECURSIVE read_rows(_, _, _, _)
read_rows(fieldnames, rows, pads_year, out) ==
    IF rows = <<>> THEN [status |-> "ok", tasks |-> out]
    ELSE IF rows[1] = <<>> THEN read_rows(fieldnames, Tail(rows), pads_year, out)
    ELSE IF \E c \in RequiredColumns : Cell(fieldnames, rows[1], c).none
    THEN [status |-> "AttributeError", tasks |-> <<>>]
    ELSE LET title == Strip(Cell(fieldnames, rows[1], "Title").value)
             url == Strip(Cell(fieldnames, rows[1], "URL").value)
             assignee_text == Strip(Cell(fieldnames, rows[1], "Assignees").value)
             start_date == Strip(Cell(fieldnames, rows[1], "Start date").value)
             end_date == Strip(Cell(fieldnames, rows[1], "End Date").value)
             milestone == Strip(Cell(fieldnames, rows[1], "Milestone").value)
             row_date(text) == IF text = <<>> THEN <<>> ELSE parse_date(text, pads_year)
         IN IF title = <<>> THEN read_rows(fieldnames, Tail(rows), pads_year, out)
            ELSE read_rows(fieldnames, Tail(rows), pads_year,
                     Append(out, Task(title, url, assignee_text,
                                      row_date(start_date), row_date(end_date),
                                      milestone)))

\* read_tsv_file on a table: its header and its lines of cells
read_tsv_file(table, pads_year) ==
    IF table.fieldnames = <<>> THEN [status |-> "empty", tasks |-> <<>>]
    ELSE IF RequiredColumns \ Range(table.fieldnames) # {}
    THEN [status |-> "missing columns", tasks |-> <<>>]
    ELSE read_rows(table.fieldnames, table.rows, pads_year, <<>>)

\* from_dict without the milestone
from_dict_without_milestone(data) ==
    Task(data.title, data.url, data.assignees, data.start_date, data.end_date, <<>>)

from_dict(data) ==
    Task(data.title, data.url, data.assignees, data.start_date, data.end_date,
         data.milestone)

\* prompt_project_start_date on the answers typed, asked again after each answer
\* that is no date
RECURSIVE prompt_project_start_date(_, _)
prompt_project_start_date(answers, pads_year) ==
    IF answers = <<>> \/ Strip(answers[1]) = <<>> THEN <<>>
    ELSE IF parse_date(Strip(answers[1]), pads_year) # <<>>
    THEN parse_date(Strip(answers[1]), pads_year)
    ELSE prompt_project_start_date(Tail(answers), pads_year)

-----------------------------------------------------------------------------
(* generate.py, and the copy of it in main.py                              *)

\* one line of the diagram: the directive and the texts interpolated into it.
\* pass and task say where it was appended (which of the three task loops, for
\* which element of tasks); they are not part of the text.
Line(op, text, date, date2, color, pass, task) ==
    [op |-> op, text |-> text, date |-> date, date2 |-> date2, color |-> color,
     pass |-> pass, task |-> task]

Plain(op) == Line(op, <<>>, <<>>, <<>>, "", "", 0)

Blank == Plain("")

\* the text of a line without where it was appended
Text(l) == [op |-> l.op, text |-> l.text, date |-> l.date, date2 |-> l.date2,
            color |-> l.color]

\* escape_plantuml_text replacing only the opening bracket
escape_open_only(text) ==
    [i \in 1..Len(text) |-> IF text[i] = "[" THEN "(" ELSE text[i]]

escape_plantuml_text(text) ==
    [i \in 1..Len(text) |->
        IF text[i] = "[" THEN "(" ELSE IF text[i] = "]" THEN ")" ELSE text[i]]

\* get_task_color with the first assignee taken from the sorted tuple
get_task_color_sorted_first(task, person_colors, group_colors, groups_dict) ==
    LET assignee_list == get_assignee_tuple(task)
        assignee_set == Range(assignee_list)
        matching == {i \in 1..Len(groups_dict) :
                        assignee_set = Range(groups_dict[i][2])}
    IN IF assignee_list = <<>> THEN None
       ELSE IF matching # {}
       THEN LET first == CHOOSE i \in matching : \A j \in matching : i <= j
            IN DictGet(group_colors, groups_dict[first][1], None)
       ELSE IF DictHas(person_colors, assignee_list[1])
       THEN DictGet(person_colors, assignee_list[1], None)
       ELSE None

get_task_color(task, person_colors, group_colors, groups_dict) ==
    LET assignee_list == get_assignee_list(task)
        assignee_set == Range(assignee_list)
        matching == {i \in 1..Len(groups_dict) :
                        assignee_set = Range(groups_dict[i][2])}
    IN IF assignee_list = <<>> THEN None
       ELSE IF matching # {}
       THEN LET first == CHOOSE i \in matching : \A j \in matching : i <= j
            IN DictGet(group_colors, groups_dict[first][1], None)
       ELSE IF DictHas(person_colors, assignee_list[1])
       THEN DictGet(person_colors, assignee_list[1], None)
       ELSE None

header_lines(cfg) ==
    IF cfg.project.header # <<>>
    THEN <<Line("title", escape_plantuml_text(cfg.project.header), <<>>, <<>>, "", "", 0),
           Blank>>
    ELSE <<>>

\* earliest_date with the milestones asked before the tasks
earliest_date_milestones_first(tsks, cfg) ==
    LET milestone_dates_only ==
            SelectSeq([i \in 1..Len(cfg.milestones) |-> cfg.milestones[i][2]],
                      LAMBDA d : d # <<>>)
    IN IF milestone_dates_only # <<>> THEN StrMin(milestone_dates_only)
       ELSE find_earliest_task_date(tsks)

\* the earliest date when no project start date is configured
earliest_date(tsks, cfg) ==
    LET milestone_dates_only ==
            SelectSeq([i \in 1..Len(cfg.milestones) |-> cfg.milestones[i][2]],
                      LAMBDA d : d # <<>>)
    IN IF find_earliest_task_date(tsks) # <<>> THEN find_earliest_task_date(tsks)
       ELSE IF milestone_dates_only # <<>> THEN StrMin(milestone_dates_only)
       ELSE <<>>

project_start_lines(tsks, cfg) ==
    IF cfg.project.start_date # <<>>
    THEN <<Line("Project starts", <<>>, cfg.project.start_date, <<>>, "", "", 0), Blank>>
    ELSE IF earliest_date(tsks, cfg) # <<>>
    THEN <<Line("Project starts", <<>>, earliest_date(tsks, cfg), <<>>, "", "", 0), Blank>>
    ELSE <<>>

WeekdayNames ==
    { <<"m", "o", "n", "d", "a", "y">>, <<"t", "u", "e", "s", "d", "a", "y">>,
      <<"w", "e", "d", "n", "e", "s", "d", "a", "y">>,
      <<"t", "h", "u", "r", "s", "d", "a", "y">>, <<"f", "r", "i", "d", "a", "y">>,
      Saturday, Sunday }

\* closed_weekday_lines without the trimming
closed_weekday_lines_untrimmed(closed_weekdays) ==
    Flat([i \in 1..Len(closed_weekdays) |->
            LET weekday_lower == Lower(closed_weekdays[i])
            IN IF closed_weekdays[i] # <<>> /\ weekday_lower \in WeekdayNames
               THEN <<Line("are closed", weekday_lower, <<>>, <<>>, "", "", 0)>>
               ELSE <<>>])

closed_weekday_lines(closed_weekdays) ==
    Flat([i \in 1..Len(closed_weekdays) |->
            LET weekday_lower == Strip(Lower(closed_weekdays[i]))
            IN IF closed_weekdays[i] # <<>> /\ weekday_lower \in WeekdayNames
               THEN <<Line("are closed", weekday_lower, <<>>, <<>>, "", "", 0)>>
               ELSE <<>>])

closed_date_lines(closed_dates, closed_date_ranges) ==
    Flat([i \in 1..Len(closed_dates) |->
            IF closed_dates[i] # <<>>
            THEN <<Line("is closed", <<>>, closed_dates[i], <<>>, "", "", 0)>>
            ELSE <<>>])
    \o Flat([i \in 1..Len(closed_date_ranges) |->
            IF closed_date_ranges[i][1] # <<>> /\ closed_date_ranges[i][2] # <<>>
            THEN <<Line("to is closed", <<>>, closed_date_ranges[i][1],
                        closed_date_ranges[i][2], "", "", 0)>>
            ELSE <<>>])
    \o (IF closed_dates # <<>> \/ closed_date_ranges # <<>> THEN <<Blank>> ELSE <<>>)

UnknownGroup == <<"U", "n", "k", "n", "o", "w", "n", " ", "G", "r", "o", "u", "p", " ", "(">>

UuidPrefixLen == 8

\* legend_label with the whole id in the placeholder
legend_label_full_id(item_ref, uuid_to_name, person_display_names) ==
    IF StartsWith(item_ref, GroupPrefix)
    THEN LET group_uuid == DropFirst(item_ref, Len(GroupPrefix))
         IN DictGet(uuid_to_name, group_uuid, UnknownGroup \o group_uuid \o <<")">>)
    ELSE IF StartsWith(item_ref, PersonPrefix)
    THEN LET person_name == DropFirst(item_ref, Len(PersonPrefix))
         IN DictGet(person_display_names, person_name, person_name)
    ELSE item_ref

\* the label of one legend item
legend_label(item_ref, uuid_to_name, person_display_names) ==
    IF StartsWith(item_ref, GroupPrefix)
    THEN LET group_uuid == DropFirst(item_ref, Len(GroupPrefix))
         IN DictGet(uuid_to_name, group_uuid,
                    UnknownGroup
                    \o SubSeq(group_uuid, 1,
                              IF Len(group_uuid) < UuidPrefixLen THEN Len(group_uuid)
                              ELSE UuidPrefixLen)
                    \o <<")">>)
    ELSE IF StartsWith(item_ref, PersonPrefix)
    THEN LET person_name == DropFirst(item_ref, Len(PersonPrefix))
         IN DictGet(person_display_names, person_name, person_name)
    ELSE item_ref

legend_lines(cfg, uuid_to_name, person_display_names) ==
    IF cfg.legend.enabled
    THEN <<Plain("legend")>>
         \o (IF cfg.legend.title # <<>>
             THEN <<Line("legend title", escape_plantuml_text(cfg.legend.title),
                         <<>>, <<>>, "", "", 0)>>
             ELSE <<>>)
         \o [i \in 1..Len(cfg.legend.items) |->
                Line("legend row",
                     escape_plantuml_text(legend_label(cfg.legend.items[i][1],
                                              uuid_to_name, person_display_names)),
                     <<>>, <<>>, cfg.legend.items[i][2], "", 0)]
         \o <<Plain("endlegend"), Blank>>
    ELSE <<>>

\* tasks_by_milestone: milestone -> the positions in tasks of its tasks, the
\* milestones in first-seen order
RECURSIVE tasks_by_milestone_from(_, _, _)
tasks_by_milestone_from(tsks, i, by) ==
    IF i > Len(tsks) THEN by
    ELSE IF tsks[i].milestone # <<>>
    THEN tasks_by_milestone_from(tsks, i + 1,
             DictSet(by, tsks[i].milestone,
                     Append(DictGet(by, tsks[i].milestone, <<>>), i)))
    ELSE tasks_by_milestone_from(tsks, i + 1, by)

\* tasks_by_milestone with the milestones in last-seen-first order
tasks_by_milestone_reversed(tsks) ==
    LET by == tasks_by_milestone_from(tsks, 1, <<>>)
    IN [k \in 1..Len(by) |-> by[Len(by) + 1 - k]]

tasks_by_milestone(tsks) == tasks_by_milestone_from(tsks, 1, <<>>)

\* tasks_without_milestone keeping every task
tasks_without_milestone_all(tsks) == [i \in 1..Len(tsks) |-> i]

tasks_without_milestone(tsks) ==
    SelectSeq([i \in 1..Len(tsks) |-> i], LAMBDA i : tsks[i].milestone = <<>>)

milestones_with_dates(cfg) == SelectSeq(cfg.milestones, LAMBDA item : item[2] # <<>>)

\* insert_by_date placing x before the elements of the same date
RECURSIVE insert_before_equal(_, _)
insert_before_equal(x, l) ==
    IF l = <<>> THEN <<x>>
    ELSE IF ~StrLess(l[1][2], x[2]) THEN <<x>> \o l
    ELSE <<l[1]>> \o insert_before_equal(x, Tail(l))

\* sorted(items, key=lambda x: x[1]): stable
RECURSIVE insert_by_date(_, _)
insert_by_date(x, l) ==
    IF l = <<>> THEN <<x>>
    ELSE IF StrLess(x[2], l[1][2]) THEN <<x>> \o l
    ELSE <<l[1]>> \o insert_by_date(x, Tail(l))

RECURSIVE sorted_by_date(_)
sorted_by_date(l) ==
    IF l = <<>> THEN <<>>
    ELSE insert_by_date(l[Len(l)], sorted_by_date(SubSeq(l, 1, Len(l) - 1)))

sorted_milestones(cfg) == sorted_by_date(milestones_with_dates(cfg))


\* the milestones sorted by date, generate.py: each with its separator
milestone_lines(cfg) ==
    Flat([i \in 1..Len(sorted_milestones(cfg)) |->
            LET safe_milestone == escape_plantuml_text(sorted_milestones(cfg)[i][1])
            IN <<Line("happens at", safe_milestone, sorted_milestones(cfg)[i][2],
                      <<>>, "", "", 0),
                 Line("Separator just at", safe_milestone, <<>>, <<>>, "", "", 0)>>])
    \o (IF sorted_milestones(cfg) # <<>> THEN <<Blank, Blank>> ELSE <<>>)

\* the milestones sorted by date, main.py: then a vertical line for each
main_milestone_lines(cfg) ==
    [i \in 1..Len(sorted_milestones(cfg)) |->
        Line("happens at", escape_plantuml_text(sorted_milestones(cfg)[i][1]),
             sorted_milestones(cfg)[i][2], <<>>, "", "", 0)]
    \o (IF sorted_milestones(cfg) # <<>> THEN <<Blank>> ELSE <<>>)
    \o [i \in 1..Len(sorted_milestones(cfg)) |->
        Line("date is colored in", <<>>, sorted_milestones(cfg)[i][2], <<>>,
             "LightGray", "", 0)]
    \o (IF sorted_milestones(cfg) # <<>> THEN <<Blank>> ELSE <<>>)

\* "is colored in" for the task at position i, appended in the given pass
color_lines(tsks, i, pass, loaded) ==
    LET color == get_task_color(tsks[i], loaded.person_colors, loaded.group_colors,
                                loaded.groups_dict)
    IN IF color # None /\ color # ""
       THEN <<Line("is colored in", escape_plantuml_text(tsks[i].title), <<>>, <<>>,
                   color, pass, i)>>
       ELSE <<>>

\* the body of the loop over a dated milestone's tasks, generate.py: a task with
\* neither date is only logged
dated_task_lines(tsks, i, milestone, cfg, loaded) ==
    LET task == tsks[i]
        safe_title == escape_plantuml_text(task.title)
    IN (IF task.start_date # <<>>
        THEN <<Line("starts", safe_title, task.start_date, <<>>, "", "dated", i)>>
        ELSE <<>>)
       \o (IF task.end_date # <<>>
           THEN <<Line("ends", safe_title, task.end_date, <<>>, "", "dated", i)>>
           ELSE IF task.start_date # <<>>
           THEN <<Line("lasts 1 days", safe_title, <<>>, <<>>, "", "dated", i)>>
           ELSE <<>>)
       \o color_lines(tsks, i, "dated", loaded)

\* the body of the loop over a dated milestone's tasks, main.py: a task with
\* neither date happens at the milestone's date
main_dated_task_lines(tsks, i, milestone, cfg, loaded) ==
    LET task == tsks[i]
        safe_title == escape_plantuml_text(task.title)
    IN (IF task.start_date # <<>>
        THEN <<Line("starts", safe_title, task.start_date, <<>>, "", "dated", i)>>
        ELSE <<>>)
       \o (IF task.end_date # <<>>
           THEN <<Line("ends", safe_title, task.end_date, <<>>, "", "dated", i)>>
           ELSE IF task.start_date # <<>>
           THEN <<Line("lasts 1 days", safe_title, <<>>, <<>>, "", "dated", i)>>
           ELSE <<>>)
       \o (IF task.start_date = <<>> /\ task.end_date = <<>>
              /\ DictHas(milestones_with_dates(cfg), milestone)
           THEN <<Line("happens at", safe_title,
                       DictGet(milestones_with_dates(cfg), milestone, <<>>),
                       <<>>, "", "dated", i)>>
           ELSE <<>>)
       \o color_lines(tsks, i, "dated", loaded)

\* undated_task_lines with the one-day duration for every task that has a start
\* date
undated_task_lines_always_lasts(tsks, i, loaded) ==
    LET task == tsks[i]
        safe_title == escape_plantuml_text(task.title)
    IN (IF task.start_date # <<>>
        THEN <<Line("starts", safe_title, task.start_date, <<>>, "", "undated", i)>>
        ELSE <<>>)
       \o (IF task.end_date # <<>>
           THEN <<Line("ends", safe_title, task.end_date, <<>>, "", "undated", i)>>
           ELSE <<>>)
       \o (IF task.start_date # <<>>
           THEN <<Line("lasts 1 days", safe_title, <<>>, <<>>, "", "undated", i)>>
           ELSE <<>>)
       \o color_lines(tsks, i, "undated", loaded)

\* the body of the loop over an undated milestone's tasks
undated_task_lines(tsks, i, loaded) ==
    LET task == tsks[i]
        safe_title == escape_plantuml_text(task.title)
    IN (IF task.start_date # <<>>
        THEN <<Line("starts", safe_title, task.start_date, <<>>, "", "undated", i)>>
        ELSE <<>>)
       \o (IF task.end_date # <<>>
           THEN <<Line("ends", safe_title, task.end_date, <<>>, "", "undated", i)>>
           ELSE IF task.start_date # <<>>
           THEN <<Line("lasts 1 days", safe_title, <<>>, <<>>, "", "undated", i)>>
           ELSE <<>>)
       \o color_lines(tsks, i, "undated", loaded)

\* the body of the loop over the tasks without milestone
other_task_lines(tsks, i, loaded) ==
    LET task == tsks[i]
        safe_title == escape_plantuml_text(task.title)
    IN (IF task.start_date # <<>>
        THEN <<Line("starts", safe_title, task.start_date, <<>>, "", "other", i)>>
        ELSE <<>>)
       \o (IF task.end_date # <<>>
           THEN <<Line("ends", safe_title, task.end_date, <<>>, "", "other", i)>>
           ELSE IF task.start_date # <<>>
           THEN <<Line("lasts 1 days", safe_title, <<>>, <<>>, "", "other", i)>>
           ELSE <<>>)
       \o color_lines(tsks, i, "other", loaded)

section_line(milestone, pass) ==
    Line("section", escape_plantuml_text(milestone), <<>>, <<>>, "", pass, 0)

\* first pass, generate.py: the milestones with dates, in date order
dated_pass(tsks, cfg, loaded) ==
    Flat([k \in 1..Len(sorted_milestones(cfg)) |->
            LET milestone == sorted_milestones(cfg)[k][1]
                milestone_tasks == DictGet(tasks_by_milestone(tsks), milestone, <<>>)
            IN IF ~DictHas(tasks_by_milestone(tsks), milestone) THEN <<>>
               ELSE <<section_line(milestone, "dated")>>
                    \o Flat([n \in 1..Len(milestone_tasks) |->
                               dated_task_lines(tsks, milestone_tasks[n], milestone,
                                                cfg, loaded)])
                    \o <<Blank>>])

\* first pass, main.py
main_dated_pass(tsks, cfg, loaded) ==
    Flat([k \in 1..Len(sorted_milestones(cfg)) |->
            LET milestone == sorted_milestones(cfg)[k][1]
                milestone_tasks == DictGet(tasks_by_milestone(tsks), milestone, <<>>)
            IN IF ~DictHas(tasks_by_milestone(tsks), milestone) THEN <<>>
               ELSE <<section_line(milestone, "dated")>>
                    \o Flat([n \in 1..Len(milestone_tasks) |->
                               main_dated_task_lines(tsks, milestone_tasks[n],
                                                     milestone, cfg, loaded)])
                    \o <<Blank>>])

\* second pass: the milestones without dates but with tasks, first seen first
undated_pass(tsks, cfg, loaded) ==
    Flat([k \in 1..Len(tasks_by_milestone(tsks)) |->
            LET milestone == tasks_by_milestone(tsks)[k][1]
                milestone_tasks == tasks_by_milestone(tsks)[k][2]
            IN IF DictHas(milestones_with_dates(cfg), milestone) THEN <<>>
               ELSE <<section_line(milestone, "undated")>>
                    \o Flat([n \in 1..Len(milestone_tasks) |->
                               undated_task_lines(tsks, milestone_tasks[n], loaded)])
                    \o <<Blank>>])

\* third pass: the tasks without milestone
other_pass(tsks, loaded) ==
    IF tasks_without_milestone(tsks) # <<>>
    THEN <<Line("section", <<"O", "t", "h", "e", "r", " ", "T", "a", "s", "k", "s">>,
                <<>>, <<>>, "", "other", 0)>>
         \o Flat([n \in 1..Len(tasks_without_milestone(tsks)) |->
                    other_task_lines(tsks, tasks_without_milestone(tsks)[n], loaded)])
         \o <<Blank>>
    ELSE <<>>

footer_lines(cfg) ==
    IF cfg.project.footer # <<>>
    THEN <<Line("footer", escape_plantuml_text(cfg.project.footer), <<>>, <<>>, "", "", 0),
           Blank>>
    ELSE <<>>

\* what generate_plantuml reads from the document before it writes a line
loaded_config(cfg) ==
    [person_colors |-> load_persons_from_config(cfg).person_colors,
     person_display_names |-> load_persons_from_config(cfg).person_display_names,
     groups_dict |-> load_groups_from_config(cfg).groups_dict,
     group_colors |-> load_groups_from_config(cfg).group_colors,
     uuid_to_name |-> load_groups_from_config(cfg).uuid_to_name,
     closed_weekdays |-> load_closed_days_from_config(cfg).closed_weekdays,
     closed_dates |-> load_closed_days_from_config(cfg).closed_dates,
     closed_date_ranges |-> load_closed_days_from_config(cfg).closed_date_ranges]

\* the lines both copies write before the milestones
preamble_lines(tsks, cfg, loaded) ==
    <<Plain("@startgantt")>>
    \o header_lines(cfg)
    \o project_start_lines(tsks, cfg)
    \o <<Plain("printscale daily")>>
    \o closed_weekday_lines(loaded.closed_weekdays)
    \o <<Blank>>
    \o closed_date_lines(loaded.closed_dates, loaded.closed_date_ranges)
    \o legend_lines(cfg, loaded.uuid_to_name, loaded.person_display_names)

\* generate.py
generate_plantuml(tsks, cfg) ==
    LET loaded == loaded_config(cfg)
    IN preamble_lines(tsks, cfg, loaded)
       \o milestone_lines(cfg)
       \o dated_pass(tsks, cfg, loaded)
       \o undated_pass(tsks, cfg, loaded)
       \o other_pass(tsks, loaded)
       \o footer_lines(cfg)
       \o <<Plain("@endgantt")>>

\* main.py
main_generate_plantuml(tsks, cfg) ==
    LET loaded == loaded_config(cfg)
    IN preamble_lines(tsks, cfg, loaded)
       \o main_milestone_lines(cfg)
       \o main_dated_pass(tsks, cfg, loaded)
       \o undated_pass(tsks, cfg, loaded)
       \o other_pass(tsks, loaded)
       \o footer_lines(cfg)
       \o <<Plain("@endgantt")>>

-----------------------------------------------------------------------------
(* main.py: grouping and colours                                           *)

COLOR_PALETTE ==
    << "LightBlue", "LightGreen", "LightCoral", "LightGoldenRodYellow", "LightPink",
       "LightSalmon", "LightSeaGreen", "LightSkyBlue", "LightSteelBlue", "PaleGreen",
       "PaleTurquoise", "PeachPuff", "Plum", "PowderBlue", "Thistle" >>

\* the Counter of assignee tuples, its keys in first-seen order
RECURSIVE assignee_combinations_from(_, _, _)
assignee_combinations_from(tsks, i, counter) ==
    IF i > Len(tsks) THEN counter
    ELSE LET assignee_tuple == get_assignee_tuple(tsks[i])
         IN IF Len(assignee_tuple) > 1
            THEN assignee_combinations_from(tsks, i + 1,
                     DictSet(counter, assignee_tuple,
                             DictGet(counter, assignee_tuple, 0) + 1))
            ELSE assignee_combinations_from(tsks, i + 1, counter)

assignee_combinations(tsks) == assignee_combinations_from(tsks, 1, <<>>)

\* the sort key of a group: (its count, its size)
group_key(g, counter) == <<DictGet(counter, g, 0), Len(g)>>

\* key_less with the size compared before the count
key_less_size_first(k1, k2) == k1[2] < k2[2] \/ (k1[2] = k2[2] /\ k1[1] < k2[1])

\* tuple comparison k1 < k2
key_less(k1, k2) == k1[1] < k2[1] \/ (k1[1] = k2[1] /\ k1[2] < k2[2])

\* list.sort(key=..., reverse=True): descending, equal keys keep their order
RECURSIVE insert_descending(_, _, _)
insert_descending(g, l, counter) ==
    IF l = <<>> THEN <<g>>
    ELSE IF key_less(group_key(l[1], counter), group_key(g, counter)) THEN <<g>> \o l
    ELSE <<l[1]>> \o insert_descending(g, Tail(l), counter)

RECURSIVE sort_descending(_, _)
sort_descending(l, counter) ==
    IF l = <<>> THEN <<>>
    ELSE insert_descending(l[Len(l)], sort_descending(SubSeq(l, 1, Len(l) - 1), counter),
                           counter)

\* detect_assignee_groups keeping only the tuples seen more than min_occ times
detect_assignee_groups_above(tsks, min_occ) ==
    LET counter == assignee_combinations(tsks)
        frequent_groups ==
            SelectSeq([i \in 1..Len(counter) |-> counter[i][1]],
                      LAMBDA g : DictGet(counter, g, 0) > min_occ)
    IN sort_descending(frequent_groups, counter)

detect_assignee_groups(tsks, min_occ) ==
    LET counter == assignee_combinations(tsks)
        frequent_groups ==
            SelectSeq([i \in 1..Len(counter) |-> counter[i][1]],
                      LAMBDA g : DictGet(counter, g, 0) >= min_occ)
    IN sort_descending(frequent_groups, counter)

\* color_persons without the fallback colour
RECURSIVE color_persons_no_fallback(_, _, _)
color_persons_no_fallback(names, color_index, persons) ==
    IF names = <<>> THEN [persons |-> persons, color_index |-> color_index]
    ELSE IF color_index < Len(COLOR_PALETTE)
    THEN color_persons_no_fallback(Tail(names), color_index + 1,
             Append(persons, [name |-> names[1], display_name |-> <<>>,
                              color |-> COLOR_PALETTE[color_index + 1]]))
    ELSE color_persons_no_fallback(Tail(names), color_index,
             Append(persons, [name |-> names[1], display_name |-> <<>>,
                              color |-> ""]))

\* the loop over sorted(assignees): the persons so far and color_index
RECURSIVE color_persons(_, _, _)
color_persons(names, color_index, persons) ==
    IF names = <<>> THEN [persons |-> persons, color_index |-> color_index]
    ELSE IF color_index < Len(COLOR_PALETTE)
    THEN color_persons(Tail(names), color_index + 1,
             Append(persons, [name |-> names[1], display_name |-> <<>>,
                              color |-> COLOR_PALETTE[color_index + 1]]))
    ELSE color_persons(Tail(names), color_index,
             Append(persons, [name |-> names[1], display_name |-> <<>>,
                              color |-> "LightGray"]))

\* the loop over groups; uuids is what uuid.uuid4() returns for each of them
RECURSIVE color_groups(_, _, _, _)
color_groups(grps, uuids, color_index, out) ==
    IF grps = <<>> THEN out
    ELSE IF color_index < Len(COLOR_PALETTE)
    THEN color_groups(Tail(grps), Tail(uuids), color_index + 1,
             Append(out, [uuid |-> uuids[1], name |-> Join(<<" ", "&", " ">>, grps[1]),
                          members |-> grps[1],
                          color |-> COLOR_PALETTE[color_index + 1]]))
    ELSE color_groups(Tail(grps), Tail(uuids), color_index,
             Append(out, [uuid |-> uuids[1], name |-> Join(<<" ", "&", " ">>, grps[1]),
                          members |-> grps[1], color |-> ""]))

\* assign_colors with one id for all groups of a call
assign_colors_one_uuid(names, grps, uuids) ==
    LET individuals == color_persons(SortedSet(names), 0, <<>>)
    IN [persons_with_colors |-> individuals.persons,
        groups_with_colors |->
            color_groups(grps, [k \in 1..Len(uuids) |-> uuids[1]],
                         individuals.color_index, <<>>)]

\* assign_colors with color_index set back to 0 before the groups
assign_colors_restart(names, grps, uuids) ==
    LET individuals == color_persons(SortedSet(names), 0, <<>>)
    IN [persons_with_colors |-> individuals.persons,
        groups_with_colors |-> color_groups(grps, uuids, 0, <<>>)]

assign_colors(names, grps, uuids) ==
    LET individuals == color_persons(SortedSet(names), 0, <<>>)
    IN [persons_with_colors |-> individuals.persons,
        groups_with_colors |-> color_groups(grps, uuids, individuals.color_index, <<>>)]

-----------------------------------------------------------------------------
(* Inputs                                                                  *)

MaxTasks == 2

NameA == <<"A">>
NameB == <<"B">>
NameC == <<"C">>

Title == <<"T">>

M1 == <<"M", "1">>
M2 == <<"M", "2">>
M3 == <<"M", "3">>
M4 == <<"M", "4">>

Digits == <<"1", "2", "3", "4", "5", "6", "7", "8", "9">>

\* the canonical date 2026-01-0n
Day(n) == <<"2", "0", "2", "6", "-", "0", "1", "-", "0", Digits[n]>>

\* all lists of at most n elements of S
ListsUpTo(S, n) == UNION {[1..k -> S] : k \in 0..n}

\* a document as load_config_from_toml may return it
Document(tsks, start_date, milestones, persons, grps) ==
    [project |-> [start_date |-> start_date, header |-> <<>>, footer |-> <<>>],
     closed_days |-> [weekdays |-> <<Saturday, Sunday>>, dates |-> <<>>,
                      date_ranges |-> <<>>],
     milestones |-> milestones,
     colors |-> [persons |-> [isdict |-> FALSE, value |-> persons]],
     groups |-> grps,
     legend |-> [enabled |-> FALSE, title |-> <<>>, items |-> <<>>],
     tasks |-> [i \in 1..Len(tsks) |-> to_dict(tsks[i])]]

Person(name, color) == [name |-> name, display_name |-> <<>>, color |-> color]

Group(uuid, name, members, color) ==
    [uuid |-> uuid, name |-> name, members |-> members, color |-> color]

\* tasks that differ in their dates and milestone
DatedTasks ==
    {Task(Title, "", NameA, s, e, m) :
        s \in {<<>>, Day(3)}, e \in {<<>>, Day(2)}, m \in {<<>>, M1, M2}}

MilestoneMaps ==
    { <<>>,
      << <<M1, Day(1)>> >>,
      << <<M1, <<>> >> >>,
      << <<M1, Day(4)>>, <<M2, Day(1)>> >>,
      << <<M2, Day(1)>>, <<M1, Day(1)>> >>,
      << <<M1, <<>> >>, <<M2, Day(4)>> >>,
      << <<M3, Day(1)>>, <<M1, Day(4)>> >>,
      << <<M2, Day(4)>>, <<M3, <<>> >>, <<M1, Day(1)>>, <<M4, Day(1)>> >> }

DatedDocuments(tsks) ==
    {Document(tsks, start, milestones, <<Person(NameA, "LightBlue")>>, <<>>) :
        start \in {<<>>, Day(6)}, milestones \in MilestoneMaps}

\* tasks that differ in their assignees
AssigneeTexts ==
    { <<>>, <<"A">>, <<"A", ",", "B">>, <<"B", ",", " ", "A">>,
      <<"A", ",", "B", ",", "C">>, <<"C", ",", "B">> }

AssignedTasks == {Task(Title, "", a, Day(3), <<>>, <<>>) : a \in AssigneeTexts}

Uuid(n) == <<"0", "0", "0", "0", "0", "0", "0", Digits[n], "-", "a">>

GroupX == <<"X">>

GroupLists ==
    { <<>>,
      << Group(Uuid(1), <<"A", "B">>, <<NameA, NameB>>, "Plum") >>,
      << Group(Uuid(1), <<"A", "B">>, <<NameA, NameB>>, "") >>,
      << Group(Uuid(1), <<"A", "B">>, <<NameA, NameB>>, "Plum"),
         Group(Uuid(2), <<"B", "A">>, <<NameB, NameA>>, "Thistle") >>,
      << Group(Uuid(1), <<"A", "B", "C">>, <<NameA, NameB, NameC>>, "PeachPuff"),
         Group(Uuid(2), <<"A", "B">>, <<NameA, NameB>>, "Plum") >>,
      << Group(Uuid(1), <<"B", "C">>, <<NameB, NameC>>, "Plum") >>,
      << Group(Uuid(1), <<"A", "B", "C">>, <<NameA, NameB, NameC>>, "PeachPuff") >>,
      \* two groups of one name, and a group without a name
      << Group(Uuid(1), GroupX, <<NameA, NameB>>, "Plum"),
         Group(Uuid(2), GroupX, <<NameA, NameB, NameC>>, "Thistle") >>,
      << Group(Uuid(1), <<>>, <<NameA, NameB>>, "Plum") >>,
      \* a group without a colour before a coloured group of the same members
      << Group(Uuid(1), <<"A", "B">>, <<NameA, NameB>>, ""),
         Group(Uuid(2), GroupX, <<NameB, NameA>>, "Thistle") >>,
      << Group(Uuid(1), GroupX, <<NameA, NameB>>, ""),
         Group(Uuid(2), GroupX, <<NameB, NameA>>, "Thistle") >> }

PersonLists ==
    { <<>>,
      << Person(NameA, "LightBlue") >>,
      << Person(NameA, "LightBlue"), Person(NameB, "LightGreen"), Person(NameC, "") >>,
      << Person(NameB, "LightGreen") >> }

AssignedDocuments(tsks) ==
    {Document(tsks, <<>>, <<>>, persons, grps) :
        persons \in PersonLists, grps \in GroupLists}

MaxDetectTasks == 3

MaxMinOccurrences == 3

MaxGroups == 2

PoolSize == 16

TupleAB == <<NameA, NameB>>
TupleAC == <<NameA, NameC>>
TupleBC == <<NameB, NameC>>
TupleABC == <<NameA, NameB, NameC>>

\* tasks that differ in who is assigned together
GroupedTexts ==
    { <<>>, <<"A">>, <<"A", ",", "B">>, <<"B", ",", " ", "A">>, <<"A", ",", "C">>,
      <<"C", ",", "A", ",", "B">>, <<"A", ",", "A">> }

GroupedTasks == {Task(Title, "", a, <<>>, <<>>, <<>>) : a \in GroupedTexts}

\* how often t is the assignee tuple of a task
Occurrences(tsks, t) ==
    Cardinality({i \in 1..Len(tsks) : get_assignee_tuple(tsks[i]) = t})

\* the lists of section 8's example: A,B three times, A,C once, A,B,C twice
IsExample(tsks) ==
    /\ Len(tsks) = 6
    /\ Occurrences(tsks, TupleAB) = 3
    /\ Occurrences(tsks, TupleAC) = 1
    /\ Occurrences(tsks, TupleABC) = 2

ExampleTaskLists ==
    {tsks \in [1..6 -> {Task(Title, "", a, <<>>, <<>>, <<>>) :
                          a \in { <<"A", ",", "B">>, <<"A", ",", "C">>,
                                  <<"C", ",", "A", ",", "B">> }}] : IsExample(tsks)}

\* the names assigned alone: few, or all but few of a pool
Pool == {<<UpperCase[n]>> : n \in 1..PoolSize}

Few == {<<UpperCase[PoolSize - 2]>>, <<UpperCase[PoolSize - 1]>>, <<UpperCase[PoolSize]>>}

AssigneeSets == SUBSET Few \cup {Pool \ R : R \in SUBSET Few}

\* the tuples assigned together
GroupTupleLists ==
    {l \in ListsUpTo({TupleAB, TupleABC, TupleBC}, MaxGroups) :
        \A j, k \in 1..Len(l) : l[j] = l[k] => j = k}

\* a task list read from a file: two tasks for each tuple of tuples, then one task
\* for each name of names
ColouredTasks(names, tuples) ==
    Flat([j \in 1..Len(tuples) |->
            <<Task(Title, "", Join(<<",">>, tuples[j]), Day(3), <<>>, <<>>),
              Task(Title, "", Join(<<",">>, tuples[j]), <<>>, <<>>, <<>>)>>])
    \o [k \in 1..Cardinality(names) |->
           Task(Title, "", SortedSet(names)[k], <<>>, <<>>, <<>>)]

\* what uuid.uuid4() may return for n groups: n values, no two the same
FreshUuids(n) ==
    {u \in [1..n -> {Uuid(1), Uuid(2), Uuid(3)}] :
        \A j, k \in 1..n : u[j] = u[k] => j = k}

LegendTitle == <<"K", "e", "y">>

-----------------------------------------------------------------------------
(* The run                                                                 *)

NoDocument == Document(<<>>, <<>>, <<>>, <<>>, <<>>)

NoTable == [fieldnames |-> <<>>, rows |-> <<>>]

\* main()'s options and files: the two input options, the --project-start-date
\* text, the answers typed at the start date prompt, whether %Y pads the year,
\* the table and the document of the input files, the exit status and its cause,
\* the files read and the files written by the run, and what the two output
\* files hold (nothing before they are written)
Cli(input_tsv, input_toml, project_start_date, answers, pads_year, table, document) ==
    [input_tsv |-> input_tsv, input_toml |-> input_toml,
     project_start_date |-> project_start_date, answers |-> answers,
     pads_year |-> pads_year, table |-> table, document |-> document,
     exit_code |-> 0, cause |-> "", read |-> {}, written |-> {},
     output_toml |-> <<>>, output_puml |-> <<>>]

\* the functions called outside of main()
NoCli == Cli(FALSE, FALSE, <<>>, <<>>, TRUE, NoTable, <<>>)

\* the usage test that lets both inputs pass
neither_input(input_tsv, input_toml) == ~input_tsv /\ ~input_toml

\* main()'s two usage tests: no input, and both inputs
both_or_neither(input_tsv, input_toml) ==
    (~input_tsv /\ ~input_toml) \/ (input_tsv /\ input_toml)

\* the start date test that lets every text pass
start_date_never_invalid(project_start_date, pads_year) == FALSE

\* main()'s test of --project-start-date: given, and no date
start_date_is_invalid(project_start_date, pads_year) ==
    project_start_date # <<>> /\ parse_date(project_start_date, pads_year) = <<>>

\* generate.py's generate_plantuml on the tasks and the document
Generate ==
    /\ pc = "config"
    /\ lines' = generate_plantuml(tasks, config)
    /\ pc' = "generate.py"
    /\ UNCHANGED <<tasks, min_occurrences, assignees, groups, persons_with_colors,
                   groups_with_colors, config, cli>>

\* main.py's generate_plantuml on the tasks and the document
MainGenerate ==
    /\ pc = "config"
    /\ lines' = main_generate_plantuml(tasks, config)
    /\ pc' = "main.py"
    /\ UNCHANGED <<tasks, min_occurrences, assignees, groups, persons_with_colors,
                   groups_with_colors, config, cli>>

\* a document and its tasks, before the diagram is generated
InitWith(tsks, cfg) ==
    /\ pc = "config"
    /\ tasks = tsks
    /\ config = cfg
    /\ min_occurrences = 2
    /\ assignees = {}
    /\ groups = <<>>
    /\ persons_with_colors = <<>>
    /\ groups_with_colors = <<>>
    /\ lines = <<>>
    /\ cli = NoCli

\* three tasks that differ in their milestone
SectionTaskLists ==
    [1..3 -> {Task(Title, "", NameA, Day(3), <<>>, m) : m \in {<<>>, M1, M2}}]

InitDated ==
    \E tsks \in ListsUpTo(DatedTasks, MaxTasks) \cup SectionTaskLists :
        \E cfg \in DatedDocuments(tsks) : InitWith(tsks, cfg)

InitAssigned ==
    \E tsks \in ListsUpTo(AssignedTasks, MaxTasks) :
        \E cfg \in AssignedDocuments(tsks) : InitWith(tsks, cfg)

NextGenerate == Generate \/ MainGenerate

\* generation over tasks and milestones with and without dates
SpecDated == InitDated /\ [][NextGenerate]_vars

\* generation over tasks, groups and persons
SpecAssigned == InitAssigned /\ [][NextGenerate]_vars

\* detect_assignee_groups on the tasks read
DetectGroups ==
    /\ pc = "tasks"
    /\ groups' = detect_assignee_groups(tasks, min_occurrences)
    /\ pc' = "groups"
    /\ UNCHANGED <<tasks, min_occurrences, assignees, persons_with_colors,
                   groups_with_colors, config, lines, cli>>

\* the set of all assignees of the tasks
CollectAssignees ==
    /\ pc = "groups"
    /\ assignees' = UNION {Range(get_assignee_list(tasks[i])) : i \in 1..Len(tasks)}
    /\ pc' = "assignees"
    /\ UNCHANGED <<tasks, min_occurrences, groups, persons_with_colors,
                   groups_with_colors, config, lines, cli>>

\* assign_colors on the assignees and the groups
AssignColors ==
    /\ pc = "assignees"
    /\ \E uuids \in FreshUuids(Len(groups)) :
          /\ persons_with_colors' =
                assign_colors(assignees, groups, uuids).persons_with_colors
          /\ groups_with_colors' =
                assign_colors(assignees, groups, uuids).groups_with_colors
    /\ pc' = "colors"
    /\ UNCHANGED <<tasks, min_occurrences, assignees, groups, config, lines, cli>>

\* main()'s start date, its document and the save of it: an option that is no
\* date ends the run; the document is built for the runs without milestone
\* prompts, with an empty header and footer
Build ==
    /\ pc = "colors"
    /\ IF start_date_is_invalid(cli.project_start_date, cli.pads_year)
       THEN /\ cli' = [cli EXCEPT !.exit_code = 1, !.cause = "start date"]
            /\ pc' = "exit"
            /\ UNCHANGED config
       ELSE /\ config' = create_toml_config(tasks,
                              IF cli.project_start_date # <<>>
                              THEN parse_date(cli.project_start_date, cli.pads_year)
                              ELSE prompt_project_start_date(cli.answers, cli.pads_year),
                              <<>>, persons_with_colors, groups_with_colors,
                              <<>>, <<>>, LegendTitle)
            /\ cli' = [cli EXCEPT !.written = @ \cup {"output_toml"},
                                  !.output_toml = save_config_to_toml(config')]
            /\ pc' = "config"
    /\ UNCHANGED <<tasks, min_occurrences, assignees, groups, persons_with_colors,
                   groups_with_colors, lines>>

InitDetect ==
    /\ pc = "tasks"
    /\ tasks \in ListsUpTo(GroupedTasks, MaxDetectTasks) \cup ExampleTaskLists
    /\ min_occurrences \in 0..MaxMinOccurrences
    /\ assignees = {}
    /\ groups = <<>>
    /\ persons_with_colors = <<>>
    /\ groups_with_colors = <<>>
    /\ config = NoDocument
    /\ lines = <<>>
    /\ cli = NoCli

InitColors ==
    /\ pc = "tasks"
    /\ tasks \in {ColouredTasks(names, tuples) :
                    names \in AssigneeSets, tuples \in GroupTupleLists}
    /\ min_occurrences = 2
    /\ assignees = {}
    /\ groups = <<>>
    /\ persons_with_colors = <<>>
    /\ groups_with_colors = <<>>
    /\ config = NoDocument
    /\ lines = <<>>
    /\ cli = NoCli

NextColors ==
    DetectGroups \/ CollectAssignees \/ AssignColors \/ Build \/ Generate \/ MainGenerate

\* group detection over task lists
SpecDetect == InitDetect /\ [][DetectGroups]_vars

\* a run from the tasks read to the diagram: groups, colours, document, lines
SpecColors == InitColors /\ [][NextColors]_vars

Generated == pc \in {"generate.py", "main.py"}

-----------------------------------------------------------------------------
(* Claims                                                                  *)

\* the positions in lines of the lines appended for the task at position i
LinesOfTask(i, op) == {k \in 1..Len(lines) : lines[k].task = i /\ lines[k].op = op}

\* d is in S and no date of S is smaller
IsLeast(d, S) == d \in S /\ \A e \in S : ~StrLess(e, d)

TaskDateSet ==
    ({tasks[i].start_date : i \in 1..Len(tasks)}
     \cup {tasks[i].end_date : i \in 1..Len(tasks)}) \ {<<>>}

MilestoneDateSet == {config.milestones[j][2] : j \in 1..Len(config.milestones)} \ {<<>>}

ProjectStarts == {k \in 1..Len(lines) : lines[k].op = "Project starts"}

\* C1: the diagram holds at most one "Project starts" line; its date is the
\* configured start date if there is one, else the least start or end date of the
\* tasks if there is one, else the least milestone date if there is one, and with
\* none of the three there is no such line.
C1_StartDateFallback ==
    Generated =>
        /\ Cardinality(ProjectStarts) <= 1
        /\ IF config.project.start_date # <<>>
           THEN \E k \in ProjectStarts : lines[k].date = config.project.start_date
           ELSE IF TaskDateSet # {}
           THEN \E k \in ProjectStarts : IsLeast(lines[k].date, TaskDateSet)
           ELSE IF MilestoneDateSet # {}
           THEN \E k \in ProjectStarts : IsLeast(lines[k].date, MilestoneDateSet)
           ELSE ProjectStarts = {}

\* the third level decides: no configured date, tasks without dates, two dated
\* milestones of which the later is stored first
C1_Witness ==
    /\ Generated
    /\ config.project.start_date = <<>>
    /\ tasks # <<>> /\ TaskDateSet = {}
    /\ config.milestones = << <<M1, Day(4)>>, <<M2, Day(1)>> >>
    /\ \E k \in ProjectStarts : lines[k].date = Day(1)

\* the date of the milestone named m in the document, <<>> if it has none
MilestoneDate(m) ==
    IF \E j \in 1..Len(config.milestones) : config.milestones[j][1] = m
    THEN config.milestones[CHOOSE j \in 1..Len(config.milestones) :
                               config.milestones[j][1] = m][2]
    ELSE <<>>

NoDates(i) == tasks[i].start_date = <<>> /\ tasks[i].end_date = <<>>

\* C4: a task with neither start nor end date whose milestone has a date gets, in
\* the dated-milestone pass, a "happens at" line with the milestone's date; such a
\* task under an undated milestone or without milestone gets no "happens at" line.
C4_HappensAtMilestoneDate ==
    Generated =>
        \A i \in 1..Len(tasks) :
            NoDates(i) =>
                IF tasks[i].milestone # <<>> /\ MilestoneDate(tasks[i].milestone) # <<>>
                THEN \E k \in LinesOfTask(i, "happens at") :
                        /\ lines[k].pass = "dated"
                        /\ lines[k].date = MilestoneDate(tasks[i].milestone)
                ELSE LinesOfTask(i, "happens at") = {}

\* C5: a task with a start date and no end date gets a "starts" line directly
\* followed by a "lasts 1 days" line and no "ends" line; a task with an end date
\* gets an "ends" line and no "lasts 1 days" line; in each of the three passes.
C5_StartsLastsEnds ==
    Generated =>
        \A i \in 1..Len(tasks) :
            /\ (tasks[i].start_date # <<>> /\ tasks[i].end_date = <<>>) =>
                  /\ \E k \in LinesOfTask(i, "starts") :
                        /\ lines[k].date = tasks[i].start_date
                        /\ k + 1 \in LinesOfTask(i, "lasts 1 days")
                  /\ LinesOfTask(i, "ends") = {}
            /\ tasks[i].end_date # <<>> =>
                  /\ \E k \in LinesOfTask(i, "ends") :
                        lines[k].date = tasks[i].end_date
                  /\ LinesOfTask(i, "lasts 1 days") = {}

\* a task with only a start date in each of the three passes
C5_Witness ==
    /\ Generated
    /\ \E i \in 1..Len(tasks) :
          /\ tasks[i].start_date # <<>> /\ tasks[i].end_date = <<>>
          /\ \E k \in LinesOfTask(i, "lasts 1 days") : lines[k].pass = "undated"
    /\ \E i \in 1..Len(tasks) :
          /\ tasks[i].end_date # <<>>
          /\ \E k \in LinesOfTask(i, "ends") : lines[k].pass = "dated"


\* the colour the diagram gives the task at position i, "" if it gives none
ColourOf(i) ==
    IF LinesOfTask(i, "is colored in") = {} THEN ""
    ELSE lines[CHOOSE k \in LinesOfTask(i, "is colored in") : TRUE].color

AssigneeSetOf(i) == Range(get_assignee_list(tasks[i]))

\* the groups of the document that have a name and members
ReadableGroups ==
    {j \in 1..Len(config.groups) :
        config.groups[j].name # <<>> /\ config.groups[j].members # <<>>}

\* the readable groups whose member set is the assignee set of the task at i
MatchingGroups(i) ==
    {j \in ReadableGroups : Range(config.groups[j].members) = AssigneeSetOf(i)}

FirstOf(S) == CHOOSE j \in S : \A k \in S : j <= k

DistinctGroupNames ==
    \A j, k \in ReadableGroups :
        config.groups[j].name = config.groups[k].name => j = k

\* C2 as stated: a task whose assignee set is the member set of some group of the
\* document gets the colour of the first such group in stored order.
C2_AnyDocument ==
    Generated =>
        \A i \in 1..Len(tasks) :
            (AssigneeSetOf(i) # {} /\ MatchingGroups(i) # {}) =>
                /\ Cardinality(LinesOfTask(i, "is colored in")) <= 1
                /\ ColourOf(i) = config.groups[FirstOf(MatchingGroups(i))].color

\* C2 holds of the documents whose groups have pairwise distinct names: there a
\* task whose assignee set is the member set of some group gets the colour of the
\* first such group in stored order (no colour line if that colour is empty),
\* whatever colour its first assignee has.
C2_GroupColourWins == DistinctGroupNames => C2_AnyDocument

\* "B, A" with the groups A & B (Plum) and B & A (Thistle) and a colour for B
C2_Witness ==
    /\ Generated
    /\ Len(config.groups) = 2 /\ DistinctGroupNames
    /\ \E i \in 1..Len(tasks) :
          /\ tasks[i].assignees = <<"B", ",", " ", "A">>
          /\ MatchingGroups(i) = {1, 2}
          /\ \E n \in 1..Len(config.colors.persons.value) :
                /\ config.colors.persons.value[n].name = NameB
                /\ config.colors.persons.value[n].color = "LightGreen"
          /\ ColourOf(i) = "Plum"

\* the colour configured for the person of that name, "" if none is
PersonColourOf(name) ==
    LET with == {n \in 1..Len(config.colors.persons.value) :
                    /\ config.colors.persons.value[n].name = name
                    /\ config.colors.persons.value[n].color # ""}
    IN IF with = {} THEN "" ELSE config.colors.persons.value[FirstOf(with)].color

\* S is a strict subset or a strict superset of T
StrictlyNested(S, T) == S # T /\ (S \subseteq T \/ T \subseteq S)

\* C3: a task whose assignee set is a strict subset or superset of the member set
\* of every group of the document gets the colour configured for its first
\* assignee in the order of the assignee text, no colour if that person has none;
\* a task without assignees gets no colour.
C3_NoPartialMatch ==
    Generated =>
        \A i \in 1..Len(tasks) :
            /\ Cardinality(LinesOfTask(i, "is colored in")) <= 1
            /\ AssigneeSetOf(i) = {} => ColourOf(i) = ""
            /\ (/\ AssigneeSetOf(i) # {}
                /\ \A j \in 1..Len(config.groups) :
                      StrictlyNested(AssigneeSetOf(i), Range(config.groups[j].members)))
               => ColourOf(i) = PersonColourOf(get_assignee_list(tasks[i])[1])

\* "B, A" under the only group A & B & C: B's colour, not A's
C3_Witness ==
    /\ Generated
    /\ Len(config.groups) = 1
    /\ \E i \in 1..Len(tasks) :
          /\ tasks[i].assignees = <<"B", ",", " ", "A">>
          /\ Range(config.groups[1].members) = {NameA, NameB, NameC}
          /\ PersonColourOf(NameA) = "LightBlue"
          /\ ColourOf(i) = "LightGreen"
    /\ \E i \in 1..Len(tasks) : AssigneeSetOf(i) = {}


\* the assignee tuples of the tasks that have at least two assignees
CoAssigned == {get_assignee_tuple(tasks[i]) :
                  i \in {n \in 1..Len(tasks) : Len(get_assignee_list(tasks[n])) >= 2}}

\* C6: detect_groups returns exactly the assignee tuples of tasks with two or more
\* assignees that occur at least min_occurrences times, each once, a tuple of
\* higher count before one of lower count and, at equal count, never a smaller
\* tuple before a larger one; every returned tuple is the tuple of some task.
C6_DetectGroups ==
    pc = "groups" =>
        /\ Range(groups) =
              {t \in CoAssigned : Occurrences(tasks, t) >= min_occurrences}
        /\ \A a, b \in 1..Len(groups) : groups[a] = groups[b] => a = b
        /\ \A a, b \in 1..Len(groups) :
              a < b =>
                 \/ Occurrences(tasks, groups[a]) > Occurrences(tasks, groups[b])
                 \/ /\ Occurrences(tasks, groups[a]) = Occurrences(tasks, groups[b])
                    /\ Len(groups[a]) >= Len(groups[b])

\* a tuple below the threshold is left out, and of the two kept tuples the one of
\* higher count is first although it is the smaller one and was seen later
C6_Witness ==
    /\ pc = "groups"
    /\ \E t \in CoAssigned :
          Occurrences(tasks, t) > 0 /\ Occurrences(tasks, t) < min_occurrences
    /\ Len(groups) = 2
    /\ Occurrences(tasks, groups[1]) > Occurrences(tasks, groups[2])
    /\ Len(groups[1]) < Len(groups[2])
    /\ get_assignee_tuple(tasks[1]) = groups[2]

\* C7 as stated: on the example (A,B three times, A,C once, A,B,C twice,
\* min_occurrences 2) detect_groups returns [(A,B,C), (A,B)].
C7_LargerGroupFirst ==
    (pc = "groups" /\ IsExample(tasks) /\ min_occurrences = 2) =>
        groups = <<TupleABC, TupleAB>>

\* C7: on the example detect_groups returns [(A,B), (A,B,C)], the tuple of higher
\* count first, and leaves (A,C) out.
C7_HigherCountFirst ==
    (pc = "groups" /\ IsExample(tasks) /\ min_occurrences = 2) =>
        groups = <<TupleAB, TupleABC>>

\* the example with A,B,C seen before A,B
C7_Witness ==
    /\ pc = "groups" /\ IsExample(tasks) /\ min_occurrences = 2
    /\ get_assignee_tuple(tasks[1]) = TupleABC
    /\ Len(groups) = 2

AfterColors == pc \in {"colors", "config", "generate.py", "main.py"}

\* the persons are the assignees, each once, in ascending order of name
PersonsSorted ==
    /\ {persons_with_colors[k].name : k \in 1..Len(persons_with_colors)} = assignees
    /\ \A k \in 1..Len(persons_with_colors) - 1 :
          StrLess(persons_with_colors[k].name, persons_with_colors[k + 1].name)

PaletteUses ==
    [k \in 1..Len(persons_with_colors) |-> persons_with_colors[k].color]
    \o [j \in 1..Len(groups_with_colors) |-> groups_with_colors[j].color]

\* C9: the groups are coloured in the order given, the j-th group with the palette
\* entry j places after the last one a person got, and with the empty colour once
\* the palette is used up; no palette entry goes to two entities.
C9_GroupsContinuePalette ==
    AfterColors =>
        LET used == IF Len(persons_with_colors) <= Len(COLOR_PALETTE)
                    THEN Len(persons_with_colors) ELSE Len(COLOR_PALETTE)
        IN /\ Len(groups_with_colors) = Len(groups)
           /\ \A j \in 1..Len(groups) :
                 /\ groups_with_colors[j].members = groups[j]
                 /\ groups_with_colors[j].color =
                       IF used + j <= Len(COLOR_PALETTE)
                       THEN COLOR_PALETTE[used + j] ELSE ""
           /\ \A a, b \in 1..Len(PaletteUses) :
                 (PaletteUses[a] \in Range(COLOR_PALETTE)
                    /\ PaletteUses[a] = PaletteUses[b]) => a = b

\* the first group takes the last palette entry, the second gets none
C9_Witness ==
    /\ pc = "colors"
    /\ Len(persons_with_colors) = Len(COLOR_PALETTE) - 1
    /\ Len(groups_with_colors) = 2
    /\ groups_with_colors[1].color = "Thistle"
    /\ groups_with_colors[2].color = ""

LegendRows == SelectSeq(lines, LAMBDA l : l.op = "legend row")

\* C10: the legend items of the built document are the groups in the order of the
\* group list, each as "group:<uuid>" with its colour, then the persons in the
\* order of the person list, each as "person:<name>" with its colour, and nothing
\* else; the diagram has one legend row per item, in that order, with the item's
\* colour and the group's or person's name.
C10_LegendOrder ==
    LET ng == Len(groups_with_colors)
        np == Len(persons_with_colors)
        items == config.legend.items
    IN /\ pc \in {"config", "generate.py", "main.py"} =>
             /\ Len(items) = ng + np
             /\ \A j \in 1..ng :
                   items[j] = <<GroupPrefix \o groups_with_colors[j].uuid,
                                groups_with_colors[j].color>>
             /\ \A k \in 1..np :
                   items[ng + k] = <<PersonPrefix \o persons_with_colors[k].name,
                                     persons_with_colors[k].color>>
       /\ Generated =>
             /\ Len(LegendRows) = Len(items)
             /\ \A j \in 1..ng :
                   /\ LegendRows[j].color = groups_with_colors[j].color
                   /\ LegendRows[j].text = groups_with_colors[j].name
             /\ \A k \in 1..np :
                   /\ LegendRows[ng + k].color = persons_with_colors[k].color
                   /\ LegendRows[ng + k].text = persons_with_colors[k].name

\* two groups and two or more persons in the legend of a generated diagram
C10_Witness ==
    /\ pc = "generate.py"
    /\ Len(groups_with_colors) = 2
    /\ Len(persons_with_colors) >= 2
    /\ Len(LegendRows) = 2 + Len(persons_with_colors)
    /\ LegendRows[1].text = <<"A", " ", "&", " ", "B">>


-----------------------------------------------------------------------------
(* Documents with a legend                                                 *)

MaxItems == 2

\* an id shorter than the prefix the placeholder shows
ShortId == <<"a", "b">>

\* item references: to a group by id, to a person by name, and a legacy label
ItemRefs ==
    { GroupPrefix \o Uuid(1), GroupPrefix \o Uuid(2), GroupPrefix \o ShortId,
      GroupPrefix, PersonPrefix \o NameA, <<"T", "e", "a", "m">> }

LegendItemLists ==
    UNION {[1..k -> {<<ref, "Plum">> : ref \in ItemRefs}] : k \in 0..MaxItems}

DisplayName == <<"A", "n", "n">>

LegendPersonLists ==
    { << Person(NameA, "LightBlue") >>,
      << [name |-> NameA, display_name |-> DisplayName, color |-> "LightBlue"] >> }

\* a document whose legend is enabled
LegendDocument(tsks, persons, grps, items) ==
    [Document(tsks, <<>>, <<>>, persons, grps) EXCEPT
        !.legend = [enabled |-> TRUE, title |-> LegendTitle, items |-> items]]

InitLegend ==
    \E persons \in LegendPersonLists, grps \in GroupLists, items \in LegendItemLists :
        LET tsks == <<Task(Title, "", <<"A", ",", "B">>, Day(3), <<>>, <<>>)>>
        IN InitWith(tsks, LegendDocument(tsks, persons, grps, items))

\* generation over documents with legend items that do and do not resolve
SpecLegend == InitLegend /\ [][NextGenerate]_vars

\* the id a legend reference to a group holds
GroupIdOf(ref) == SubSeq(ref, Len(GroupPrefix) + 1, Len(ref))

IsGroupRef(ref) ==
    Len(ref) >= Len(GroupPrefix) /\ SubSeq(ref, 1, Len(GroupPrefix)) = GroupPrefix

\* the readable groups of the document that have this id
GroupsWithId(id) == {j \in ReadableGroups : config.groups[j].uuid = id}

\* the placeholder for an id: its first UuidPrefixLen characters in parentheses
Placeholder(id) ==
    UnknownGroup
    \o [n \in 1..(IF Len(id) < UuidPrefixLen THEN Len(id) ELSE UuidPrefixLen) |-> id[n]]
    \o <<")">>

\* the legend items that refer to a group by an id no readable group has
Unresolved ==
    {i \in 1..Len(config.legend.items) :
        /\ IsGroupRef(config.legend.items[i][1])
        /\ GroupsWithId(GroupIdOf(config.legend.items[i][1])) = {}}

\* C11: a legend item "group:<id>" whose id no readable group of the document has
\* is rendered as the row "Unknown Group (<first 8 characters of id>)" with the
\* item's colour; the diagram still has one legend row per item, the lines of
\* every task and its closing line.
C11_UnknownGroupPlaceholder ==
    Generated =>
        /\ Len(LegendRows) = Len(config.legend.items)
        /\ \A i \in Unresolved :
              /\ LegendRows[i].text = Placeholder(GroupIdOf(config.legend.items[i][1]))
              /\ LegendRows[i].color = config.legend.items[i][2]
        /\ \A i \in 1..Len(tasks) :
              tasks[i].start_date # <<>> => LinesOfTask(i, "starts") # {}
        /\ lines[Len(lines)].op = "@endgantt"

\* a reference to an id of ten characters that no group has, before a reference
\* that resolves
C11_Witness ==
    /\ Generated
    /\ Len(config.legend.items) = 2
    /\ config.legend.items[1][1] = GroupPrefix \o Uuid(2)
    /\ 1 \in Unresolved /\ 2 \notin Unresolved
    /\ LegendRows[1].text =
          UnknownGroup \o <<"0", "0", "0", "0", "0", "0", "0", "2", ")">>
    /\ LegendRows[2].text = <<"A", "B">>
    /\ LinesOfTask(1, "starts") # {}


-----------------------------------------------------------------------------
(* A group renamed in the document                                         *)

\* the names a group is renamed to: a new one, and the name another group has
NewGroupNames == {GroupX, Join(<<" ", "&", " ">>, TupleAB), Join(<<" ", "&", " ">>, TupleBC)}

\* the name of one group of the built document is changed to another name
RenameGroup ==
    /\ pc = "config"
    /\ \E j \in 1..Len(config.groups), name \in NewGroupNames :
          /\ name # config.groups[j].name
          /\ config' = [config EXCEPT !.groups[j].name = name]
    /\ UNCHANGED <<pc, tasks, min_occurrences, assignees, groups, persons_with_colors,
                   groups_with_colors, lines, cli>>

InitRename ==
    /\ pc = "tasks"
    /\ tasks \in {ColouredTasks(names, tuples) :
                    names \in SUBSET Few, tuples \in GroupTupleLists}
    /\ min_occurrences = 2
    /\ assignees = {}
    /\ groups = <<>>
    /\ persons_with_colors = <<>>
    /\ groups_with_colors = <<>>
    /\ config = NoDocument
    /\ lines = <<>>
    /\ cli = NoCli

NextRename ==
    \/ DetectGroups \/ CollectAssignees \/ AssignColors \/ Build
    \/ RenameGroup \/ Generate \/ MainGenerate

\* a run from the tasks read to the diagram, the document edited in between
SpecRename == InitRename /\ [][NextRename]_vars

\* C12: the groups assign_colors returns have pairwise distinct ids; in the built
\* document, whatever non-empty names its groups are renamed to, every legend
\* reference "group:<id>" is rendered as the current name of the group with that
\* id, and no legend row is the "Unknown Group" placeholder.
C12_RenameKeepsReferences ==
    /\ AfterColors =>
          \A j, k \in 1..Len(groups_with_colors) :
              groups_with_colors[j].uuid = groups_with_colors[k].uuid => j = k
    /\ Generated =>
          /\ Len(LegendRows) = Len(config.legend.items)
          /\ \A i \in 1..Len(config.legend.items) :
                IsGroupRef(config.legend.items[i][1]) =>
                   /\ \E j \in 1..Len(config.groups) :
                         /\ config.groups[j].uuid = GroupIdOf(config.legend.items[i][1])
                         /\ LegendRows[i].text = config.groups[j].name
                   /\ ~StartsWith(LegendRows[i].text, UnknownGroup)

\* two groups, the second renamed to the name the first had and the first to a
\* new name
C12_Witness ==
    /\ Generated
    /\ Len(config.groups) = 2
    /\ groups_with_colors[1].name = Join(<<" ", "&", " ">>, TupleAB)
    /\ config.groups[1].name = GroupX
    /\ config.groups[2].name = Join(<<" ", "&", " ">>, TupleAB)
    /\ LegendRows[1].text = GroupX
    /\ LegendRows[2].text = Join(<<" ", "&", " ">>, TupleAB)


-----------------------------------------------------------------------------
(* The built document read back                                            *)

NameAB == <<"A", " ", "&", " ", "B">>
NameBC == <<"B", " ", "&", " ", "C">>

\* two tuples of different members whose names joined by " & " are the same
TupleLeft == <<NameAB, NameC>>
TupleRight == <<NameA, NameBC>>

RoundTripTaskLists ==
    {ColouredTasks(names, tuples) :
        names \in AssigneeSets,
        tuples \in GroupTupleLists \cup {<<TupleLeft, TupleRight>>, <<TupleRight>>}}

InitRoundTrip ==
    /\ pc = "tasks"
    /\ tasks \in RoundTripTaskLists
    /\ min_occurrences = 2
    /\ assignees = {}
    /\ groups = <<>>
    /\ persons_with_colors = <<>>
    /\ groups_with_colors = <<>>
    /\ config = NoDocument
    /\ lines = <<>>
    /\ cli = NoCli

NextRoundTrip == DetectGroups \/ CollectAssignees \/ AssignColors \/ Build

\* a run from the tasks read to the built document
SpecRoundTrip == InitRoundTrip /\ [][NextRoundTrip]_vars

\* what the three readers return for the built document (a name without colour
\* reads as the empty colour)
PersonsReadBack ==
    LET read == load_persons_from_config(config)
    IN \A k \in 1..Len(persons_with_colors) :
          DictGet(read.person_colors, persons_with_colors[k].name, "")
             = persons_with_colors[k].color

GroupsReadBack ==
    LET read == load_groups_from_config(config)
    IN \A j \in 1..Len(groups_with_colors) :
          /\ DictGet(read.groups_dict, groups_with_colors[j].name, <<>>)
                = groups_with_colors[j].members
          /\ DictGet(read.group_colors, groups_with_colors[j].name, "")
                = groups_with_colors[j].color

ClosedDaysReadBack ==
    load_closed_days_from_config(config).closed_weekdays = <<Saturday, Sunday>>

GroupNamesDiffer ==
    \A j, k \in 1..Len(groups_with_colors) :
        groups_with_colors[j].name = groups_with_colors[k].name => j = k

\* C13 as stated: read back from the built document, every person has the colour
\* assigned to it, every group its member list and its assigned colour, and the
\* closed weekdays are saturday and sunday.
C13_RoundTrip ==
    pc = "config" => PersonsReadBack /\ GroupsReadBack /\ ClosedDaysReadBack

\* C13 holds of the task lists whose groups get pairwise distinct names: there
\* the built document reads back as assigned.
C13_RoundTripDistinctNames ==
    (pc = "config" /\ GroupNamesDiffer) =>
        PersonsReadBack /\ GroupsReadBack /\ ClosedDaysReadBack

\* two groups and more persons than the palette has entries, read back
C13_Witness ==
    /\ pc = "config"
    /\ GroupNamesDiffer
    /\ Len(groups_with_colors) = 2
    /\ Len(persons_with_colors) > Len(COLOR_PALETTE)
    /\ groups_with_colors[1].color = ""
    /\ GroupsReadBack


-----------------------------------------------------------------------------
(* Milestones and sections                                                 *)

\* the "happens at" lines written for milestones (not for a task)
MilestoneHappens == SelectSeq(lines, LAMBDA l : l.op = "happens at" /\ l.task = 0)

\* the positions in the document of the milestones that have a date
DatedMilestones == {j \in 1..Len(config.milestones) : config.milestones[j][2] # <<>>}

\* the position in the document of the milestone of that name
StoredAt(name) == CHOOSE j \in 1..Len(config.milestones) : config.milestones[j][1] = name

\* C14: the "happens at" lines of milestones are one for each milestone of the
\* document that has a date, with its name and date, and none for any other; they
\* are in ascending order of date, milestones of equal date in stored order.
C14_MilestonesByDate ==
    Generated =>
        /\ Len(MilestoneHappens) = Cardinality(DatedMilestones)
        /\ \A j \in DatedMilestones :
              \E k \in 1..Len(MilestoneHappens) :
                  /\ MilestoneHappens[k].text = config.milestones[j][1]
                  /\ MilestoneHappens[k].date = config.milestones[j][2]
        /\ \A k, n \in 1..Len(MilestoneHappens) :
              k < n =>
                 \/ StrLess(MilestoneHappens[k].date, MilestoneHappens[n].date)
                 \/ /\ MilestoneHappens[k].date = MilestoneHappens[n].date
                    /\ StoredAt(MilestoneHappens[k].text) < StoredAt(MilestoneHappens[n].text)

\* stored as M2 (the 4th), M3 (no date), M1 (the 1st), M4 (the 1st): written as
\* M1, M4, M2
C14_Witness ==
    /\ Generated
    /\ Len(config.milestones) = 4
    /\ Len(MilestoneHappens) = 3
    /\ MilestoneHappens[1].text = M1
    /\ MilestoneHappens[2].text = M4
    /\ MilestoneHappens[3].text = M2


\* the positions in lines of the section headers
Sections == {k \in 1..Len(lines) : lines[k].op = "section"}

\* the section a line is in: the last section header before it
SectionOf(k) == CHOOSE n \in Sections : n < k /\ \A o \in Sections : o < k => o <= n

PassRank(pass) == IF pass = "dated" THEN 1 ELSE IF pass = "undated" THEN 2 ELSE 3

\* the milestones that have tasks, with and without a date in the document
MilestonesOfTasks == {tasks[i].milestone : i \in 1..Len(tasks)} \ {<<>>}

\* the position in tasks of the first task of that milestone
FirstSeen(m) ==
    CHOOSE i \in 1..Len(tasks) :
        tasks[i].milestone = m /\ \A j \in 1..Len(tasks) : tasks[j].milestone = m => i <= j

OtherTasks == <<"O", "t", "h", "e", "r", " ", "T", "a", "s", "k", "s">>

\* C15: the sections are, in this order, one for each milestone with tasks and a
\* date, by ascending date; one for each milestone with tasks and no date, by the
\* first task that names it; one "Other Tasks" section if a task has no
\* milestone. Every line of a task is in the section of its milestone, and in a
\* section the lines of an earlier task of the list come before those of a later.
C15_ThreePasses ==
    Generated =>
        /\ \A k, n \in Sections : k < n => PassRank(lines[k].pass) <= PassRank(lines[n].pass)
        /\ \A m \in MilestonesOfTasks :
              Cardinality({k \in Sections :
                  /\ lines[k].text = m
                  /\ lines[k].pass = IF MilestoneDate(m) # <<>> THEN "dated" ELSE "undated"}) = 1
        /\ Cardinality(Sections) =
              Cardinality(MilestonesOfTasks)
              + (IF \E i \in 1..Len(tasks) : tasks[i].milestone = <<>> THEN 1 ELSE 0)
        /\ \A k \in Sections : lines[k].pass = "other" => lines[k].text = OtherTasks
        /\ \A k, n \in Sections :
              (k < n /\ lines[k].pass = "dated" /\ lines[n].pass = "dated") =>
                 ~StrLess(MilestoneDate(lines[n].text), MilestoneDate(lines[k].text))
        /\ \A k, n \in Sections :
              (k < n /\ lines[k].pass = "undated" /\ lines[n].pass = "undated") =>
                 FirstSeen(lines[k].text) < FirstSeen(lines[n].text)
        /\ \A k \in 1..Len(lines) :
              lines[k].task # 0 =>
                 /\ \E n \in Sections : n < k
                 /\ lines[SectionOf(k)].text =
                       IF tasks[lines[k].task].milestone = <<>> THEN OtherTasks
                       ELSE tasks[lines[k].task].milestone
                 /\ lines[SectionOf(k)].pass = lines[k].pass
        /\ \A k, n \in 1..Len(lines) :
              (/\ lines[k].task # 0 /\ lines[n].task # 0
               /\ lines[k].task < lines[n].task
               /\ tasks[lines[k].task].milestone = tasks[lines[n].task].milestone)
              => k < n

\* three tasks: of an undated milestone, of none, of a dated milestone; their
\* sections are written in the opposite order
C15_Witness ==
    /\ Generated
    /\ Len(tasks) = 3
    /\ tasks[1].milestone = <<>> /\ tasks[2].milestone = M2 /\ tasks[3].milestone = M1
    /\ MilestoneDate(M1) # <<>> /\ MilestoneDate(M2) = <<>>
    /\ Cardinality(Sections) = 3
    /\ \E k, n, o \in Sections :
          /\ k < n /\ n < o
          /\ lines[k].text = M1 /\ lines[n].text = M2 /\ lines[o].text = OtherTasks
          /\ LinesOfTask(3, "starts") # {} /\ LinesOfTask(1, "starts") # {}


-----------------------------------------------------------------------------
(* Documents with closed days                                              *)

MaxWeekdays == 2

\* entries of closed_days.weekdays: canonical, capitalised, with blanks around,
\* empty, blank and not a weekday
WeekdayEntries ==
    { Saturday,
      <<"S", "u", "n", "d", "a", "y">>,
      <<" ", "M", "O", "N", "d", "a", "y", " ">>,
      <<>>,
      <<" ">>,
      <<"f", "u", "n", "d", "a", "y">> }

WeekdayLists == ListsUpTo(WeekdayEntries, MaxWeekdays)

ClosedDateLists == { <<>>, <<Day(1), <<>> >> }

ClosedRangeLists == { <<>>, << <<Day(1), Day(2)>>, <<Day(5)>>, <<Day(4), <<>> >> >> }

\* a document with these closed days
ClosedDocument(tsks, weekdays, dates, date_ranges) ==
    [Document(tsks, <<>>, <<>>, <<>>, <<>>) EXCEPT
        !.closed_days = [weekdays |-> weekdays, dates |-> dates,
                         date_ranges |-> date_ranges]]

\* a document whose closed_days has no weekdays key
NoWeekdaysDocument(tsks, dates, date_ranges) ==
    [Document(tsks, <<>>, <<>>, <<>>, <<>>) EXCEPT
        !.closed_days = [dates |-> dates, date_ranges |-> date_ranges]]

InitClosed ==
    \E weekdays \in WeekdayLists, dates \in ClosedDateLists,
       date_ranges \in ClosedRangeLists :
        LET tsks == <<Task(Title, "", NameA, Day(3), <<>>, <<>>)>>
        IN \/ InitWith(tsks, ClosedDocument(tsks, weekdays, dates, date_ranges))
           \/ InitWith(tsks, NoWeekdaysDocument(tsks, dates, date_ranges))

\* generation over documents with closed weekdays, dates and date ranges
SpecClosed == InitClosed /\ [][NextGenerate]_vars

UpperOf(c) == UpperCase[CHOOSE k \in 1..Len(LowerCase) : LowerCase[k] = c]

\* w is name in any case with any number of blanks before and after it
Spelt(w, name) ==
    \E a \in 0..Len(w) :
        /\ Len(w) >= a + Len(name)
        /\ \A i \in 1..a : w[i] = " "
        /\ \A i \in 1..Len(name) : w[a + i] \in {name[i], UpperOf(name[i])}
        /\ \A i \in (a + Len(name) + 1)..Len(w) : w[i] = " "

IsWeekday(w) == \E name \in WeekdayNames : Spelt(w, name)

WeekdayOf(w) == CHOOSE name \in WeekdayNames : Spelt(w, name)

\* the weekday list of the document, saturday and sunday if it has none
StoredWeekdays ==
    IF "weekdays" \in DOMAIN config.closed_days THEN config.closed_days.weekdays
    ELSE <<Saturday, Sunday>>

ClosedWeekdayLines == SelectSeq(lines, LAMBDA l : l.op = "are closed")

\* C16: the "are closed" lines are, in stored order, one for each entry of the
\* weekday list that is a weekday name in any case with blanks around it, as that
\* name in lower case without the blanks; any other entry leaves no line, and the
\* diagram is still written to its closing line with the lines of its tasks.
C16_ClosedWeekdays ==
    Generated =>
        LET kept == SelectSeq(StoredWeekdays, IsWeekday)
        IN /\ Len(ClosedWeekdayLines) = Len(kept)
           /\ \A i \in 1..Len(kept) : ClosedWeekdayLines[i].text = WeekdayOf(kept[i])
           /\ lines[Len(lines)].op = "@endgantt"
           /\ LinesOfTask(1, "starts") # {}

\* " MONday " is written as monday, "funday" before it is dropped
C16_Witness ==
    /\ Generated
    /\ "weekdays" \in DOMAIN config.closed_days
    /\ config.closed_days.weekdays =
          << <<"f", "u", "n", "d", "a", "y">>, <<" ", "M", "O", "N", "d", "a", "y", " ">> >>
    /\ Len(ClosedWeekdayLines) = 1
    /\ ClosedWeekdayLines[1].text = <<"m", "o", "n", "d", "a", "y">>


-----------------------------------------------------------------------------
(* Documents with square brackets in their texts                           *)

Bracketed == <<"[", "x", "]">>

TitleTexts == {Title, Bracketed, <<"]", "a", "[", "[">>}

\* a document with one group, one person, one milestone and a legend
EscapeDocument(tsks, header, footer, legend_title, group_name, display_name, milestone, date) ==
    [project |-> [start_date |-> <<>>, header |-> header, footer |-> footer],
     closed_days |-> [weekdays |-> <<Saturday, Sunday>>, dates |-> <<>>,
                      date_ranges |-> <<>>],
     milestones |-> << <<milestone, date>> >>,
     colors |-> [persons |-> [isdict |-> FALSE, value |->
                    << [name |-> NameA, display_name |-> display_name,
                        color |-> "LightBlue"] >>]],
     groups |-> << Group(Uuid(1), group_name, <<NameA, NameB>>, "Plum") >>,
     legend |-> [enabled |-> TRUE, title |-> legend_title,
                 items |-> << <<GroupPrefix \o Uuid(1), "Plum">>,
                              <<PersonPrefix \o NameA, "LightBlue">>,
                              <<Bracketed, "Thistle">> >>],
     tasks |-> [i \in 1..Len(tsks) |-> to_dict(tsks[i])]]

InitEscape ==
    \E title \in TitleTexts, header \in {<<>>, Bracketed}, footer \in {<<>>, Bracketed},
       legend_title \in {<<>>, Bracketed}, group_name \in {GroupX, Bracketed},
       display_name \in {<<>>, Bracketed}, milestone \in {M1, Bracketed},
       date \in {<<>>, Day(1)}, of \in BOOLEAN :
        LET tsks == <<Task(title, "", <<"A", ",", "B">>, Day(3), <<>>,
                           IF of THEN milestone ELSE <<>>)>>
        IN InitWith(tsks, EscapeDocument(tsks, header, footer, legend_title,
                                         group_name, display_name, milestone, date))

\* generation over documents whose texts hold square brackets
SpecEscape == InitEscape /\ [][NextGenerate]_vars

NoBrackets(text) == \A i \in 1..Len(text) : text[i] \notin {"[", "]"}

\* e is t with every "[" replaced by "(", every "]" by ")" and nothing else changed
IsEscapeOf(e, t) ==
    /\ Len(e) = Len(t)
    /\ \A i \in 1..Len(t) :
          e[i] = IF t[i] = "[" THEN "(" ELSE IF t[i] = "]" THEN ")" ELSE t[i]

\* the line of that directive, if the diagram has exactly one
TheLine(op) == CHOOSE k \in 1..Len(lines) : lines[k].op = op

HasOne(op) == Cardinality({k \in 1..Len(lines) : lines[k].op = op}) = 1

\* the free texts of the document and its tasks
FreeTexts ==
    {tasks[i].title : i \in 1..Len(tasks)}
    \cup {config.milestones[j][1] : j \in 1..Len(config.milestones)}
    \cup {config.project.header, config.project.footer, config.legend.title}
    \cup {config.groups[j].name : j \in 1..Len(config.groups)}
    \cup {config.colors.persons.value[n].display_name :
             n \in 1..Len(config.colors.persons.value)}

\* C17: no text written into the diagram holds "[" or "]"; the lines of a task
\* hold its escaped title, the section and milestone lines the escaped milestone
\* name, the title, footer and legend title lines the escaped header, footer and
\* legend title, the legend rows the escaped group name and person display name;
\* escaping an escaped text changes nothing.
C17_EscapedEverywhere ==
    Generated =>
        /\ \A k \in 1..Len(lines) : NoBrackets(lines[k].text)
        /\ \A k \in 1..Len(lines) :
              lines[k].task # 0 => IsEscapeOf(lines[k].text, tasks[lines[k].task].title)
        /\ \A k \in Sections :
              lines[k].pass # "other" =>
                 IsEscapeOf(lines[k].text, tasks[1].milestone)
        /\ \A k \in 1..Len(MilestoneHappens) :
              IsEscapeOf(MilestoneHappens[k].text, config.milestones[1][1])
        /\ config.project.header # <<>> =>
              HasOne("title") /\ IsEscapeOf(lines[TheLine("title")].text, config.project.header)
        /\ config.project.footer # <<>> =>
              HasOne("footer") /\ IsEscapeOf(lines[TheLine("footer")].text, config.project.footer)
        /\ config.legend.title # <<>> =>
              HasOne("legend title")
              /\ IsEscapeOf(lines[TheLine("legend title")].text, config.legend.title)
        /\ Len(LegendRows) = 3
        /\ IsEscapeOf(LegendRows[1].text, config.groups[1].name)
        /\ IsEscapeOf(LegendRows[2].text,
                      IF config.colors.persons.value[1].display_name # <<>>
                      THEN config.colors.persons.value[1].display_name ELSE NameA)
        /\ IsEscapeOf(LegendRows[3].text, config.legend.items[3][1])
        /\ \A t \in FreeTexts :
              escape_plantuml_text(escape_plantuml_text(t)) = escape_plantuml_text(t)

\* brackets in every text, the task under a dated milestone
C17_Witness ==
    /\ pc = "main.py"
    /\ FreeTexts = {<<"]", "a", "[", "[">>, Bracketed}
    /\ tasks[1].title = <<"]", "a", "[", "[">>
    /\ Len(MilestoneHappens) = 1
    /\ \E k \in LinesOfTask(1, "starts") : lines[k].text = <<")", "a", "(", "(">>
    /\ \E k \in Sections : lines[k].text = <<"(", "x", ")">>
    /\ LegendRows[1].text = <<"(", "x", ")">>

-----------------------------------------------------------------------------
(* main(): the command line                                                *)

MaxRows == 2

StandardColumns == <<"Title", "URL", "Assignees", "Start date", "End Date", "Milestone">>

\* the header without its Milestone column
MissingColumns == <<"Title", "URL", "Assignees", "Start date", "End Date">>

IsoText == Day(3)
ShortIsoText == <<"2", "0", "2", "6", "-", "1", "-", "3">>
NamedText == <<"J", "a", "n", " ", "8", ",", " ", "2", "0", "2", "6">>
LongNamedText == <<" ", "j", "a", "n", "u", "a", "r", "y", " ", " ", "0", "8", ",", " ", "2", "0", "2", "6", " ">>
NoSuchDayText == <<"2", "0", "2", "6", "-", "0", "2", "-", "3", "0">>
LeapDayText == <<"2", "0", "2", "4", "-", "0", "2", "-", "2", "9">>
WordText == <<"x">>
OldYearText == <<"0", "9", "9", "9", "-", "0", "1", "-", "0", "1">>

TitleU == <<"U">>
PaddedTitle == <<" ", "V", " ">>
TextAB == <<"A", ",", "B">>

\* a line of the table with a cell under each standard column
Row(title, assignee_text, start_date, end_date, milestone) ==
    <<title, <<>>, assignee_text, start_date, end_date, milestone>>

\* lines of a table: complete ones with and without a title, with dates in the
\* three formats, dates that are none, a year below 1000; a line that ends after
\* its third cell, a line without cells, a line with a cell too many
Rows ==
    { Row(Title, TextAB, IsoText, NamedText, M1),
      Row(PaddedTitle, TextAB, ShortIsoText, LongNamedText, <<>>),
      Row(<<>>, NameA, IsoText, IsoText, M1),
      Row(<<" ">>, NameA, <<>>, <<>>, <<>>),
      Row(TitleU, NameA, NoSuchDayText, LeapDayText, M1),
      Row(TitleU, NameB, IsoText, WordText, <<>>),
      Row(Title, NameA, OldYearText, <<>>, <<>>),
      <<TitleU, <<>>, NameA>>,
      <<>>,
      Row(TitleU, NameA, <<>>, IsoText, M2) \o <<WordText>> }

ReverseSeq(s) == [i \in 1..Len(s) |-> s[Len(s) + 1 - i]]

\* tables with the standard header
Tables == {[fieldnames |-> StandardColumns, rows |-> rows] : rows \in ListsUpTo(Rows, MaxRows)}

\* an empty file, a header that lacks a column, and the columns in reverse order
OtherTables ==
    { NoTable,
      [fieldnames |-> MissingColumns, rows |-> <<Row(Title, NameA, IsoText, IsoText, M1)>>],
      [fieldnames |-> ReverseSeq(StandardColumns),
       rows |-> <<ReverseSeq(Row(Title, NameA, IsoText, WordText, M1)),
                  ReverseSeq(Row(<<>>, NameA, IsoText, IsoText, M1))>>],
      [fieldnames |-> ReverseSeq(StandardColumns),
       rows |-> <<ReverseSeq(Row(Title, NameA, IsoText, WordText, M1)), <<M1, IsoText>> >>] }

OneTable == [fieldnames |-> StandardColumns, rows |-> <<Row(Title, TextAB, IsoText, NamedText, M1)>>]

\* the documents of --input-toml
TomlDocuments == UNION {DatedDocuments(tsks) : tsks \in ListsUpTo(DatedTasks, 1)}

OneDocument == Document(<<>>, Day(6), <<>>, <<Person(NameA, "LightBlue")>>, <<>>)

\* the --project-start-date texts, and the answers at the prompt
StartDateOptions == {<<>>, NamedText, ShortIsoText, WordText, <<" ">>, NoSuchDayText, OldYearText}

StartDateAnswers == {<<>>, <<IsoText>>, <<WordText, NamedText>>, <<NoSuchDayText, <<" ">>, IsoText>>}

\* the runs of main(): with both or neither input, with a table, with a start
\* date option or answers at the prompt, with a document
Runs ==
    {Cli(b, b, <<>>, <<>>, TRUE, t, save_config_to_toml(d)) :
        b \in BOOLEAN, t \in {NoTable, OneTable}, d \in {NoDocument, OneDocument}}
    \cup {Cli(TRUE, FALSE, <<>>, <<>>, p, t, <<>>) :
            p \in BOOLEAN, t \in Tables \cup OtherTables}
    \cup {Cli(TRUE, FALSE, o, a, p, OneTable, <<>>) :
            o \in StartDateOptions, a \in StartDateAnswers, p \in BOOLEAN}
    \cup {Cli(FALSE, TRUE, <<>>, <<>>, TRUE, NoTable, save_config_to_toml(d)) :
            d \in TomlDocuments}

\* main() tells the two modes apart, or ends for both inputs or none
CheckInputs ==
    /\ pc = "main"
    /\ IF both_or_neither(cli.input_tsv, cli.input_toml)
       THEN /\ cli' = [cli EXCEPT !.exit_code = 1, !.cause = "usage"]
            /\ pc' = "exit"
       ELSE /\ pc' = IF cli.input_toml THEN "input_toml" ELSE "input_tsv"
            /\ UNCHANGED cli
    /\ UNCHANGED <<tasks, min_occurrences, assignees, groups, persons_with_colors,
                   groups_with_colors, config, lines>>

\* mode 2: the document and its tasks are loaded
LoadToml ==
    /\ pc = "input_toml"
    /\ config' = load_config_from_toml(cli.document)
    /\ tasks' = [i \in 1..Len(config'.tasks) |-> from_dict(config'.tasks[i])]
    /\ cli' = [cli EXCEPT !.read = @ \cup {"input_toml"}]
    /\ pc' = "config"
    /\ UNCHANGED <<min_occurrences, assignees, groups, persons_with_colors,
                   groups_with_colors, lines>>

\* mode 1: the table is read; the run ends where read_tsv_file exits or raises,
\* and where it returns no task
ReadTsv ==
    /\ pc = "input_tsv"
    /\ LET r == read_tsv_file(cli.table, cli.pads_year)
       IN IF r.status = "ok" /\ r.tasks # <<>>
          THEN /\ tasks' = r.tasks
               /\ cli' = [cli EXCEPT !.read = @ \cup {"input_tsv"}]
               /\ pc' = "tasks"
          ELSE /\ cli' = [cli EXCEPT !.read = @ \cup {"input_tsv"}, !.exit_code = 1,
                                     !.cause = IF r.status = "ok" THEN "no task"
                                               ELSE r.status]
               /\ pc' = "exit"
               /\ UNCHANGED tasks
    /\ UNCHANGED <<min_occurrences, assignees, groups, persons_with_colors,
                   groups_with_colors, config, lines>>

\* a main() that saves the configuration again where it writes the diagram
WritePumlAndToml ==
    /\ pc = "main.py"
    /\ cli' = [cli EXCEPT !.written = @ \cup {"output_puml", "output_toml"},
                          !.output_puml = lines,
                          !.output_toml = save_config_to_toml(config)]
    /\ pc' = "exit"
    /\ UNCHANGED <<tasks, min_occurrences, assignees, groups, persons_with_colors,
                   groups_with_colors, config, lines>>

\* the diagram is written and main() returns
WritePuml ==
    /\ pc = "main.py"
    /\ cli' = [cli EXCEPT !.written = @ \cup {"output_puml"}, !.output_puml = lines]
    /\ pc' = "exit"
    /\ UNCHANGED <<tasks, min_occurrences, assignees, groups, persons_with_colors,
                   groups_with_colors, config, lines>>

\* a second run: main() is started on the document a completed run from a
\* table has saved, the files of that run left as they are
RunFromSaved ==
    /\ pc = "exit"
    /\ cli.input_tsv /\ ~cli.input_toml /\ cli.exit_code = 0
    /\ cli' = [cli EXCEPT !.input_tsv = FALSE, !.input_toml = TRUE,
                          !.project_start_date = <<>>, !.answers = <<>>,
                          !.document = cli.output_toml, !.read = {}, !.written = {}]
    /\ pc' = "main"
    /\ tasks' = <<>>
    /\ assignees' = {}
    /\ groups' = <<>>
    /\ persons_with_colors' = <<>>
    /\ groups_with_colors' = <<>>
    /\ config' = NoDocument
    /\ lines' = <<>>
    /\ UNCHANGED min_occurrences

InitMain ==
    /\ pc = "main"
    /\ tasks = <<>>
    /\ min_occurrences = 2
    /\ assignees = {}
    /\ groups = <<>>
    /\ persons_with_colors = <<>>
    /\ groups_with_colors = <<>>
    /\ config = NoDocument
    /\ lines = <<>>
    /\ cli \in Runs

NextMain ==
    \/ CheckInputs \/ LoadToml \/ ReadTsv
    \/ DetectGroups \/ CollectAssignees \/ AssignColors \/ Build
    \/ MainGenerate \/ WritePuml \/ RunFromSaved

\* the runs of main() from its options to its exit
SpecMain == InitMain /\ [][NextMain]_vars

-----------------------------------------------------------------------------
(* C18, C19: the fatal errors of main()                                     *)

Started == pc # "main"

\* C18: a run given both inputs or neither ends with exit status 1 for its usage,
\* and has read no input and written no output; a run given exactly one input
\* does not end for its usage, reads that input and no other, and in the mode of
\* the document writes no document
C18_ExactlyOneInput ==
    Started =>
        /\ (cli.input_tsv = cli.input_toml) =>
              /\ pc = "exit" /\ cli.exit_code = 1 /\ cli.cause = "usage"
              /\ cli.read = {} /\ cli.written = {}
        /\ (cli.input_tsv /\ ~cli.input_toml) =>
              /\ cli.cause # "usage"
              /\ cli.read \subseteq {"input_tsv"}
              /\ pc # "input_tsv" => cli.read = {"input_tsv"}
        /\ (cli.input_toml /\ ~cli.input_tsv) =>
              /\ cli.cause # "usage"
              /\ cli.read \subseteq {"input_toml"}
              /\ pc # "input_toml" => cli.read = {"input_toml"}
              /\ cli.written \subseteq {"output_puml"}

\* a run given both inputs has ended
C18_Witness ==
    pc = "exit" /\ cli.input_tsv /\ cli.input_toml /\ cli.table = OneTable
    /\ cli.document = save_config_to_toml(OneDocument)

\* texts that are no date
UnparseableTexts == {WordText, <<" ">>, NoSuchDayText}

HeaderOk == cli.table.fieldnames # <<>> /\ RequiredColumns \subseteq Range(cli.table.fieldnames)

\* every line of the table is without cells, or complete with a blank title
NoValidTask ==
    \A i \in 1..Len(cli.table.rows) :
        \/ cli.table.rows[i] = <<>>
        \/ /\ Len(cli.table.rows[i]) >= Len(cli.table.fieldnames)
           /\ Strip(Cell(cli.table.fieldnames, cli.table.rows[i], "Title").value) = <<>>

\* the inputs of the fatal input errors
FatalInput ==
    \/ cli.input_tsv = cli.input_toml
    \/ /\ cli.input_tsv /\ ~cli.input_toml
       /\ \/ ~HeaderOk
          \/ NoValidTask
          \/ cli.project_start_date \in UnparseableTexts

FatalCauses == {"usage", "empty", "missing columns", "no task", "start date"}

\* C19: a run on an empty table, a table that lacks a column, a table without a
\* valid task, both inputs or neither, or a --project-start-date that is no date
\* never writes the document or the diagram, and where it has ended it has ended
\* with exit status 1 for one of these causes; a run that ended for one of these
\* causes ended with exit status 1 and wrote nothing
C19_FatalInputErrors ==
    /\ FatalInput =>
          /\ cli.written = {}
          /\ pc = "exit" => cli.exit_code = 1 /\ cli.cause \in FatalCauses
    /\ (pc = "exit" /\ cli.cause \in FatalCauses) =>
          cli.exit_code = 1 /\ cli.written = {}

\* a run has ended for its --project-start-date, after its table was read
C19_Witness ==
    /\ pc = "exit" /\ cli.cause = "start date"
    /\ cli.project_start_date = NoSuchDayText /\ tasks # <<>>

-----------------------------------------------------------------------------
(* C20: the rows of the table                                              *)

\* the table has been read
TableRead == cli.input_tsv /\ ~cli.input_toml /\ HeaderOk /\ pc \notin {"main", "input_tsv"}

TitleOf(row) == Strip(Cell(cli.table.fieldnames, row, "Title").value)

StartOf(row) == Strip(Cell(cli.table.fieldnames, row, "Start date").value)

EndOf(row) == Strip(Cell(cli.table.fieldnames, row, "End Date").value)

\* the lines with a title, in the order of the table
TitledRows == SelectSeq(cli.table.rows, LAMBDA row : row # <<>> /\ TitleOf(row) # <<>>)

\* YYYY-MM-DD
Canonical(s) ==
    /\ Len(s) = 10 /\ s[5] = "-" /\ s[8] = "-"
    /\ \A i \in {1, 2, 3, 4, 6, 7, 9, 10} : IsDigit(s[i])

\* the tasks are the lines with a title in their order, each with a start and an
\* end date that is empty or canonical, and empty where the line's text is no date
RowsKept ==
    /\ cli.cause # "AttributeError"
    /\ Len(tasks) = Len(TitledRows)
    /\ \A i \in 1..Len(tasks) :
          /\ tasks[i].title = TitleOf(TitledRows[i]) /\ tasks[i].title # <<>>
          /\ tasks[i].start_date = <<>> \/ Canonical(tasks[i].start_date)
          /\ tasks[i].end_date = <<>> \/ Canonical(tasks[i].end_date)
          /\ StartOf(TitledRows[i]) \in UnparseableTexts \cup {<<>>} => tasks[i].start_date = <<>>
          /\ EndOf(TitledRows[i]) \in UnparseableTexts \cup {<<>>} => tasks[i].end_date = <<>>

\* C20: once the table is read, no line of it has ended the run, and the tasks are
\* its lines with a title, in order, with dates that are empty or YYYY-MM-DD
C20_RowsKept == TableRead => RowsKept

\* every line has a cell under each column, or none at all
CompleteRows ==
    \A i \in 1..Len(cli.table.rows) :
        cli.table.rows[i] = <<>> \/ Len(cli.table.rows[i]) >= Len(cli.table.fieldnames)

\* no date of the table has a year below 1000, or %Y pads the year
YearsPrinted ==
    \/ cli.pads_year
    \/ \A i \in 1..Len(TitledRows) : OldYearText \notin {StartOf(TitledRows[i]), EndOf(TitledRows[i])}

\* the same for the tables whose lines are complete and whose years are printed in
\* four digits
C20_CompleteRowsKept == (TableRead /\ CompleteRows /\ YearsPrinted) => RowsKept

\* a table with a dropped line, a line with a date that is none and a third line
\* has been read
C20_Witness ==
    /\ TableRead /\ CompleteRows /\ YearsPrinted /\ pc = "tasks"
    /\ Len(tasks) < Len(cli.table.rows)
    /\ \E i \in 1..Len(tasks) :
          StartOf(TitledRows[i]) = NoSuchDayText /\ Canonical(tasks[i].end_date)

\* a line that ends before its last column has ended the run
C20_ShortRowAborts ==
    pc = "exit" /\ cli.cause = "AttributeError" /\ Len(cli.table.rows) = 2
    /\ Len(cli.table.rows[1]) = 6 /\ TitleOf(cli.table.rows[1]) # <<>>

\* a year below 1000 was kept in three digits
C20_ShortYear ==
    TableRead /\ \E i \in 1..Len(tasks) : Len(tasks[i].start_date) = 9

-----------------------------------------------------------------------------
(* C21, C23: the persons and the groups read from a document               *)

\* entries of colors.persons: records with and without a colour, a display name
\* and a name, a record with the colour as its only key, one with the name as its
\* only key, and an entry that is a text
PersonEntries ==
    { Person(NameA, "LightBlue"),
      [name |-> NameA, display_name |-> DisplayName, color |-> ""],
      [name |-> NameB, display_name |-> DisplayName, color |-> "LightGreen"],
      [name |-> <<>>, display_name |-> DisplayName, color |-> "Plum"],
      [color |-> "Plum"],
      [name |-> NameC],
      [scalar |-> NameA] }

\* the flat mappings of the older documents
LegacyPersons ==
    { <<>>, << <<NameA, "LightBlue">> >>, << <<NameB, "LightGreen">>, <<NameA, "">> >> }

\* entries of groups: records with and without a colour, an id, a name and
\* members, records that lack the name key or the members key, and a text
GroupEntries ==
    { Group(Uuid(1), NameAB, <<NameA, NameB>>, "Plum"),
      Group(Uuid(2), GroupX, <<NameA, NameB, NameC>>, ""),
      Group(<<>>, GroupX, <<NameB, NameC>>, "Thistle"),
      Group(Uuid(3), <<>>, <<NameA, NameB>>, "Plum"),
      Group(Uuid(3), NameAB, <<>>, "Plum"),
      [uuid |-> Uuid(3), members |-> <<NameA, NameB>>, color |-> "Plum"],
      [uuid |-> Uuid(3), name |-> GroupX],
      [scalar |-> GroupX] }

LoadedTasks ==
    << Task(Title, "", <<"A", ",", "B">>, Day(3), <<>>, <<>>),
       Task(Title, "", NameA, Day(3), <<>>, <<>>) >>

\* a document with colors.persons and groups as given
LoadedDocument(persons, grps) ==
    [Document(LoadedTasks, <<>>, <<>>, <<>>, grps) EXCEPT !.colors.persons = persons]

InitLoaded ==
    \E cfg \in {LoadedDocument([isdict |-> FALSE, value |-> l], <<>>) :
                    l \in ListsUpTo(PersonEntries, MaxItems)}
               \cup {LoadedDocument([isdict |-> TRUE, value |-> d], <<>>) :
                        d \in LegacyPersons}
               \cup {LoadedDocument([isdict |-> FALSE, value |-> <<>>], l) :
                        l \in ListsUpTo(GroupEntries, MaxItems)} :
        InitWith(LoadedTasks, cfg)

\* generation over documents whose persons and groups have entries of every kind
SpecLoaded == InitLoaded /\ [][NextGenerate]_vars

Last(S) == CHOOSE j \in S : \A k \in S : k <= j

\* the keys of a mapping are distinct
IsMapping(d) == \A i, j \in 1..Len(d) : d[i][1] = d[j][1] => i = j

PersonRecords == config.colors.persons.value

\* the records of colors.persons with the name n
PersonsNamed(n) ==
    {i \in 1..Len(PersonRecords) :
        /\ "scalar" \notin DOMAIN PersonRecords[i]
        /\ "name" \in DOMAIN PersonRecords[i]
        /\ PersonRecords[i].name = n /\ n # <<>>}

ColouredPersons(n) ==
    {i \in PersonsNamed(n) :
        "color" \in DOMAIN PersonRecords[i] /\ PersonRecords[i].color # ""}

DisplayedPersons(n) ==
    {i \in PersonsNamed(n) :
        "display_name" \in DOMAIN PersonRecords[i] /\ PersonRecords[i].display_name # <<>>}

PersonKeys == {NameA, NameB, NameC, <<>>}

\* C21: for the flat mapping load_persons_from_config returns the mapping as the
\* colours and no display name; for the list it returns a colour for exactly the
\* names of records with a name and a colour and a display name for exactly the
\* names of records with a name and a display name, each taken from the last such
\* record; every other entry adds nothing
C21_BothShapes ==
    LET loaded == load_persons_from_config(config)
    IN IF config.colors.persons.isdict
       THEN /\ loaded.person_colors = config.colors.persons.value
            /\ loaded.person_display_names = <<>>
       ELSE /\ IsMapping(loaded.person_colors) /\ IsMapping(loaded.person_display_names)
            /\ \A n \in PersonKeys :
                  /\ DictHas(loaded.person_colors, n) <=> ColouredPersons(n) # {}
                  /\ ColouredPersons(n) # {} =>
                        DictGet(loaded.person_colors, n, "") =
                            PersonRecords[Last(ColouredPersons(n))].color
                  /\ DictHas(loaded.person_display_names, n) <=> DisplayedPersons(n) # {}
                  /\ DisplayedPersons(n) # {} =>
                        DictGet(loaded.person_display_names, n, <<>>) =
                            PersonRecords[Last(DisplayedPersons(n))].display_name
            /\ \A i \in 1..Len(loaded.person_colors) :
                  loaded.person_colors[i][1] \in PersonKeys
            /\ \A i \in 1..Len(loaded.person_display_names) :
                  loaded.person_display_names[i][1] \in PersonKeys

\* a diagram was generated from a list with a text entry and a record with a
\* display name and no colour
C21_Witness ==
    /\ Generated /\ ~config.colors.persons.isdict
    /\ PersonRecords = <<[scalar |-> NameA], [name |-> NameA, display_name |-> DisplayName, color |-> ""]>>
    /\ load_persons_from_config(config).person_display_names = << <<NameA, DisplayName>> >>
    /\ load_persons_from_config(config).person_colors = <<>>

\* the group records with a name and members
NamedGroups ==
    {j \in 1..Len(config.groups) :
        /\ "scalar" \notin DOMAIN config.groups[j]
        /\ "name" \in DOMAIN config.groups[j] /\ config.groups[j].name # <<>>
        /\ "members" \in DOMAIN config.groups[j] /\ config.groups[j].members # <<>>}

GroupsNamed(n) == {j \in NamedGroups : config.groups[j].name = n}

ColouredGroups(n) == {j \in GroupsNamed(n) : config.groups[j].color # ""}

GroupsOfId(u) == {j \in NamedGroups : config.groups[j].uuid = u /\ u # <<>>}

GroupKeys == {NameAB, GroupX, <<>>}

IdKeys == {Uuid(1), Uuid(2), Uuid(3), <<>>}

\* C23: load_groups_from_config has members for exactly the names of the records
\* with a name and members, a colour for exactly the names of those with a colour
\* and a name for exactly the ids of those with an id, each taken from the last
\* such record; every other entry adds nothing
C23_SkipsUnnamedAndEmpty ==
    LET loaded == load_groups_from_config(config)
    IN /\ IsMapping(loaded.groups_dict) /\ IsMapping(loaded.group_colors)
       /\ IsMapping(loaded.uuid_to_name)
       /\ \A n \in GroupKeys :
             /\ DictHas(loaded.groups_dict, n) <=> GroupsNamed(n) # {}
             /\ GroupsNamed(n) # {} =>
                   DictGet(loaded.groups_dict, n, <<>>) =
                       config.groups[Last(GroupsNamed(n))].members
             /\ DictHas(loaded.group_colors, n) <=> ColouredGroups(n) # {}
             /\ ColouredGroups(n) # {} =>
                   DictGet(loaded.group_colors, n, "") =
                       config.groups[Last(ColouredGroups(n))].color
       /\ \A u \in IdKeys :
             /\ DictHas(loaded.uuid_to_name, u) <=> GroupsOfId(u) # {}
             /\ GroupsOfId(u) # {} =>
                   DictGet(loaded.uuid_to_name, u, <<>>) =
                       config.groups[Last(GroupsOfId(u))].name
       /\ \A i \in 1..Len(loaded.groups_dict) : loaded.groups_dict[i][1] \in GroupKeys
       /\ \A i \in 1..Len(loaded.group_colors) : loaded.group_colors[i][1] \in GroupKeys
       /\ \A i \in 1..Len(loaded.uuid_to_name) : loaded.uuid_to_name[i][1] \in IdKeys

\* a diagram was generated from a group without members followed by a group
\* with a name, members and an id and without a colour
C23_Witness ==
    /\ Generated
    /\ config.groups = << Group(Uuid(3), NameAB, <<>>, "Plum"),
                          Group(Uuid(2), GroupX, <<NameA, NameB, NameC>>, "") >>
    /\ load_groups_from_config(config).groups_dict = << <<GroupX, <<NameA, NameB, NameC>> >> >>
    /\ load_groups_from_config(config).group_colors = <<>>
    /\ load_groups_from_config(config).uuid_to_name = << <<Uuid(2), GroupX>> >>

-----------------------------------------------------------------------------
(* C22: the members of a group                                             *)

NextGrouped == DetectGroups \/ CollectAssignees \/ AssignColors

\* group detection and colouring over task lists
SpecGrouped == InitDetect /\ [][NextGrouped]_vars

\* C22: every group of assign_colors after detect_assignee_groups has at least two
\* different members
C22_TwoMembers ==
    pc = "colors" =>
        \A j \in 1..Len(groups_with_colors) :
            Cardinality(Range(groups_with_colors[j].members)) >= 2

\* no task names a person twice
NoRepeatedAssignee ==
    \A i \in 1..Len(tasks) :
        Cardinality(Range(get_assignee_list(tasks[i]))) = Len(get_assignee_list(tasks[i]))

\* the same for the task lists in which no task names a person twice
C22_TwoMembersUnrepeated == NoRepeatedAssignee => C22_TwoMembers

\* two groups were coloured for tasks that name no person twice
C22_Witness ==
    pc = "colors" /\ NoRepeatedAssignee /\ Len(groups_with_colors) = 2

\* a group of one person named twice was coloured
C22_OneMember ==
    /\ pc = "colors" /\ min_occurrences = 2 /\ Len(tasks) = 2
    /\ Len(groups_with_colors) = 1
    /\ groups_with_colors[1].members = <<NameA, NameA>>

-----------------------------------------------------------------------------
(* C24: one section for each task                                          *)

LinesOf(i) == {k \in 1..Len(lines) : lines[k].task = i}

\* the pass the milestone value of a task puts it in
PassOf(i) ==
    IF tasks[i].milestone = <<>> THEN "other"
    ELSE IF MilestoneDate(tasks[i].milestone) # <<>> THEN "dated" ELSE "undated"

\* C24: the lines of a task are all in one section, that of the pass its milestone
\* value puts it in; a task with a date has lines whatever its milestone is; no two
\* section headers of a pass have the same text
C24_OneSection ==
    Generated =>
        /\ \A i \in 1..Len(tasks) :
              /\ \A k \in LinesOf(i) :
                    /\ \E n \in Sections : n < k
                    /\ lines[SectionOf(k)].pass = PassOf(i)
              /\ Cardinality({SectionOf(k) : k \in LinesOf(i)}) <= 1
              /\ (tasks[i].start_date # <<>> \/ tasks[i].end_date # <<>>) => LinesOf(i) # {}
        /\ \A k, n \in Sections :
              (lines[k].pass = lines[n].pass /\ lines[k].text = lines[n].text) => k = n

\* main.py generated two sections for three tasks: two of a dated milestone and
\* between them one without milestone
C24_Witness ==
    /\ pc = "main.py"
    /\ Len(tasks) = 3
    /\ tasks[1].milestone = M1 /\ tasks[2].milestone = <<>> /\ tasks[3].milestone = M1
    /\ MilestoneDate(M1) # <<>>
    /\ Cardinality(Sections) = 2
    /\ LinesOf(1) # {} /\ LinesOf(2) # {} /\ LinesOf(3) # {}

-----------------------------------------------------------------------------
(* C25: a matching group without a colour                                  *)

\* the first group of the document whose members are the assignees of the task
\* at i has no colour
FirstMatchUncoloured(i) ==
    /\ AssigneeSetOf(i) # {} /\ MatchingGroups(i) # {}
    /\ config.groups[FirstOf(MatchingGroups(i))].color = ""

\* C25: a task whose assignee set is the member set of a group of the document,
\* the first such group having no colour, gets no colour line
C25_AnyDocument ==
    Generated =>
        \A i \in 1..Len(tasks) :
            FirstMatchUncoloured(i) => LinesOfTask(i, "is colored in") = {}

\* the same for the documents whose groups have pairwise distinct names
C25_UncolouredGroup == DistinctGroupNames => C25_AnyDocument

\* "A,B" got no colour although a later group of the same members has one and
\* the person A has one
C25_Witness ==
    /\ Generated /\ DistinctGroupNames /\ Len(config.groups) = 2
    /\ config.groups[2].color = "Thistle"
    /\ PersonColourOf(NameA) = "LightBlue"
    /\ \E i \in 1..Len(tasks) :
          /\ tasks[i].assignees = <<"A", ",", "B">>
          /\ FirstMatchUncoloured(i) /\ MatchingGroups(i) = {1, 2}
          /\ LinesOfTask(i, "is colored in") = {}

\* "A,B" got the colour of the second of two groups of one name
C25_LaterGroupColour ==
    /\ Generated /\ Len(config.groups) = 2
    /\ \E i \in 1..Len(tasks) :
          /\ FirstMatchUncoloured(i) /\ MatchingGroups(i) = {1, 2}
          /\ ColourOf(i) = "Thistle"

-----------------------------------------------------------------------------
(* C26, C27: the run from the saved document                               *)

\* the run is the second one, from the document the first run saved
FromSaved == cli.input_toml /\ ~cli.input_tsv /\ cli.output_toml # <<>>

FromDocument == cli.input_toml /\ ~cli.input_tsv

FromTable == cli.input_tsv /\ ~cli.input_toml

Completed == pc = "exit" /\ cli.exit_code = 0

\* C27: a run from the document reads the document and writes the diagram file
\* only: it never saves a configuration, the document and the configuration
\* file stay as they were, and a completed one has read exactly the document
\* and written exactly the diagram; a completed run from a table has written
\* the configuration file, with the configuration it built, and the diagram
C27_DocumentOnlyRead ==
    /\ FromDocument =>
           /\ "output_toml" \notin cli.written
           /\ cli.output_toml \in {<<>>, cli.document}
           /\ cli.read \subseteq {"input_toml"}
           /\ cli.written \subseteq {"output_puml"}
           /\ Completed => /\ cli.read = {"input_toml"}
                           /\ cli.written = {"output_puml"}
                           /\ cli.output_puml = lines
    /\ (FromTable /\ Completed) =>
           /\ cli.written = {"output_toml", "output_puml"}
           /\ cli.output_toml = save_config_to_toml(config)
           /\ cli.output_puml = lines

\* a completed run from the document a completed run from a table has saved
C27_Witness ==
    /\ FromDocument /\ Completed
    /\ cli.document # <<>> /\ cli.output_toml = cli.document
    /\ cli.written = {"output_puml"} /\ cli.output_puml # <<>>
    /\ Len(tasks) = 2

=============================================================================
